---- MODULE Spec2Model ----
(***************************************************************************)
(* Incremental HTTP/1.x parser of Beast: new_basic_parser, the type-erased *)
(* new_parser on top of it, and the read loop new_read that drives it.     *)
(*                                                                         *)
(* Octets are their ASCII codes.  A view (char const* p, size_t n) is a    *)
(* sequence of octets; a cursor (char const* it) is its offset from the    *)
(* start of the view, so cursor i designates element i+1 of the sequence.  *)
(* std::uint64_t is scaled to UintBits bits: every arithmetic result on    *)
(* len_ is reduced modulo 2^UintBits.                                      *)
(***************************************************************************)
EXTENDS Integers, Sequences, FiniteSets, TLC

(***************************************************************************)
(* Octets the code compares against.                                       *)
(***************************************************************************)
CR == 13
LF == 10
SP == 32
HT == 9
COLON == 58
SEMI == 59
COMMA == 44

\* What a read through a cursor standing at or after the end of the view
\* yields in the model: an octet of no class, equal to no literal.
EndOfView == 0 - 1

At(s, i) == IF i >= 0 /\ i < Len(s) THEN s[i + 1] ELSE EndOfView

\* make_string(first, last): the octets [first, last) of the view.
make_string(s, first, last) ==
    IF last <= first THEN << >>
    ELSE SubSeq(s, first + 1, IF last <= Len(s) THEN last ELSE Len(s))

(***************************************************************************)
(* Character classes.                                                      *)
(***************************************************************************)
Digits == 48 .. 57
UpperAlpha == 65 .. 90
LowerAlpha == 97 .. 122

\* tchar of RFC 7230: letters, digits and  ! # $ % & ' * + - . ^ _ ` | ~
TCharSet ==
    Digits \cup UpperAlpha \cup LowerAlpha
        \cup {33, 35, 36, 37, 38, 39, 42, 43, 45, 46, 94, 95, 96, 124, 126}

is_tchar(c) == c \in TCharSet

OWS == {SP, HT}

\* detail::to_field_char(c) is non-zero exactly for the token octets.
to_field_char(c) == c \in TCharSet

\* tab[] of is_pathchar: 0 for 0..32 and 127, 1 elsewhere.
PathCharSet == (33 .. 126) \cup (128 .. 255)
is_pathchar(c) == c \in PathCharSet

\* tab[] of is_value_char: 0 for 0..32 and 127, 1 elsewhere.
ValueCharSet == (33 .. 126) \cup (128 .. 255)
is_value_char(c) == c \in ValueCharSet

\* tab[] of is_text: 1 for HTAB, 32..126 and 128..255.
TextSet == {HT} \cup (32 .. 126) \cup (128 .. 255)
is_text(c) == c \in TextSet

is_digit(c) == c \in Digits

\* unhex(d, c): the value of a hex digit, or -1.
unhex(c) ==
    IF c \in Digits THEN c - 48
    ELSE IF c \in 65 .. 70 THEN c - 55
    ELSE IF c \in 97 .. 102 THEN c - 87
    ELSE 0 - 1

\* ASCII lower-casing, as the case-insensitive comparison does it.
ToLower(c) == IF c \in UpperAlpha THEN c + 32 ELSE c

ci_equal(a, b) ==
    /\ Len(a) = Len(b)
    /\ \A i \in 1 .. Len(a) : ToLower(a[i]) = ToLower(b[i])

(***************************************************************************)
(* std::uint64_t, scaled.                                                  *)
(***************************************************************************)
UintBits == 20
UintMod == 2 ^ UintBits
UintMax == UintMod - 1
USub(a, b) == (a - b + UintMod) % UintMod

Min(a, b) == IF a < b THEN a ELSE b

\* beast::detail::clamp(len_, dynabuf.size())
clamp(v, n) == Min(v, n)

(***************************************************************************)
(* Scanner primitives.                                                     *)
(***************************************************************************)

\* parse_dec(it, last, v): [ok, v].  The run of digits starts at `it`; the
\* code never compares the cursor with `last`.
RECURSIVE parse_dec_loop(_, _, _)
parse_dec_loop(s, it, v) ==
    LET c == At(s, it + 1) IN
    IF ~ is_digit(c) THEN [ok |-> TRUE, v |-> v]
    ELSE IF v > (UintMax - 10) \div 10 THEN [ok |-> FALSE, v |-> v]
    ELSE parse_dec_loop(s, it + 1, (10 * v + (c - 48)) % UintMod)

parse_dec(s, it) ==
    IF ~ is_digit(At(s, it)) THEN [ok |-> FALSE, v |-> 0]
    ELSE parse_dec_loop(s, it, At(s, it) - 48)

\* parse_hex(it, v): [ok, v, it]; `it` is left on the first non-hex octet.
RECURSIVE parse_hex_loop(_, _, _)
parse_hex_loop(s, it, v) ==
    LET d == unhex(At(s, it + 1)) IN
    IF d < 0 THEN [ok |-> TRUE, v |-> v, it |-> it + 1]
    ELSE LET v1 == (16 * v + d) % UintMod IN
         IF v1 <= v THEN [ok |-> FALSE, v |-> v1, it |-> it + 1]
         ELSE parse_hex_loop(s, it + 1, v1)

parse_hex(s, it) ==
    IF unhex(At(s, it)) < 0 THEN [ok |-> FALSE, v |-> 0, it |-> it]
    ELSE parse_hex_loop(s, it, unhex(At(s, it)))

\* parse_crlf(it): [ok, it].
parse_crlf(s, it) ==
    IF At(s, it) # CR THEN [ok |-> FALSE, it |-> it]
    ELSE IF At(s, it + 1) # LF THEN [ok |-> FALSE, it |-> it + 1]
    ELSE [ok |-> TRUE, it |-> it + 2]

\* The loop  while(f(*it)) ++it;  for a class given as a set of octets:
\* the first cursor from `it` on whose octet is not of the class.
SkipWhile(s, it, class) ==
    IF \A k \in it .. Len(s) - 1 : s[k + 1] \in class
        THEN (IF it > Len(s) THEN it ELSE Len(s))
    ELSE CHOOSE e \in it .. Len(s) - 1 :
            /\ s[e + 1] \notin class
            /\ \A k \in it .. e - 1 : s[k + 1] \in class

\* parse_as(it, f): [str, it]; the empty string when the run does not end in SP.
parse_as(s, it, class) ==
    LET e == SkipWhile(s, it, class) IN
    IF At(s, e) # SP THEN [str |-> << >>, it |-> e]
    ELSE [str |-> make_string(s, it, e), it |-> e]

HTTPSlash == <<72, 84, 84, 80, 47>>

\* parse_version(it): [v, it]; v = -1 on failure.
parse_version(s, it) ==
    IF \E k \in 0 .. 4 : At(s, it + k) # HTTPSlash[k + 1]
        THEN [v |-> 0 - 1, it |-> it]
    ELSE IF ~ is_digit(At(s, it + 5)) THEN [v |-> 0 - 1, it |-> it + 5]
    ELSE IF At(s, it + 6) # 46 THEN [v |-> 0 - 1, it |-> it + 6]
    ELSE IF ~ is_digit(At(s, it + 7)) THEN [v |-> 0 - 1, it |-> it + 7]
    ELSE [v |-> 10 * (At(s, it + 5) - 48) + (At(s, it + 7) - 48), it |-> it + 8]

\* parse_status(it): [v, it]; v = -1 on failure.
parse_status(s, it) ==
    IF ~ is_digit(At(s, it)) THEN [v |-> 0 - 1, it |-> it]
    ELSE IF ~ is_digit(At(s, it + 1)) THEN [v |-> 0 - 1, it |-> it + 1]
    ELSE IF ~ is_digit(At(s, it + 2)) THEN [v |-> 0 - 1, it |-> it + 2]
    ELSE [v |-> 100 * (At(s, it) - 48) + 10 * (At(s, it + 1) - 48)
                    + (At(s, it + 2) - 48),
          it |-> it + 3]

\* parse_reason(it): [str, it, bad]; the run of text octets up to the first CR.
\* `bad` tells the empty result of a non-text octet from an empty run.
parse_reason(s, it) ==
    LET e == SkipWhile(s, it, TextSet) IN
    IF At(s, e) # CR THEN [str |-> << >>, it |-> e, bad |-> TRUE]
    ELSE [str |-> make_string(s, it, e), it |-> e, bad |-> FALSE]

\* The first offset >= from at which pat occurs in the view, or Len(s).
MatchAt(s, i, pat) == \A k \in 1 .. Len(pat) : s[i + k] = pat[k]

find_pat(s, from, pat) ==
    IF \A i \in from .. Len(s) - Len(pat) : ~ MatchAt(s, i, pat) THEN Len(s)
    ELSE CHOOSE i \in from .. Len(s) - Len(pat) :
            /\ MatchAt(s, i, pat)
            /\ \A j \in from .. i - 1 : ~ MatchAt(s, j, pat)

\* find_crlf(first, last) over [first, Len(s)): [first, second], both Len(s)
\* when there is no match (Boost >= 1.62 returns the pair (last, last)).
find_crlf(s, from) ==
    LET i == find_pat(s, from, <<CR, LF>>) IN
    IF i = Len(s) THEN [first |-> Len(s), second |-> Len(s)]
    ELSE [first |-> i, second |-> i + 2]

\* A variant of find_2x_crlf that is satisfied by a single CRLF.
find_2x_crlf_Single(s, from) ==
    LET i == find_pat(s, from, <<CR, LF>>) IN
    IF i = Len(s) THEN [first |-> Len(s), second |-> Len(s)]
    ELSE [first |-> i, second |-> i + 2]

find_2x_crlf(s, from) ==
    LET i == find_pat(s, from, <<CR, LF, CR, LF>>) IN
    IF i = Len(s) THEN [first |-> Len(s), second |-> Len(s)]
    ELSE [first |-> i, second |-> i + 4]


(***************************************************************************)
(* Parser state.  f_ is the set of flag bits that are set.                 *)
(***************************************************************************)
flagContentLength == 1
flagChunked == 2
flagHeader == 8
flagDone == 16
flagExpectCRLF == 32
flagFinalChunk == 64

\* The members of new_basic_parser after construction.  x_ has no
\* initialiser; every read of x_ follows a write of it in parse_chunked.
NewParser == [f |-> {}, len |-> UintMax, skip |-> 0, x |-> 0]

done(p) == flagDone \in p.f
have_header(p) == flagHeader \in p.f
is_chunked(p) == flagChunked \in p.f
needs_eof(p) == p.f \cap {flagChunked, flagContentLength} = {}

RemainUnknown == 65536

remain(p) ==
    IF p.f \cap {flagContentLength, flagChunked} # {} THEN p.len
    ELSE RemainUnknown

\* content_length(): <<v>> when present, << >> for boost::none.
content_length(p) ==
    IF flagContentLength \notin p.f THEN << >> ELSE <<p.len>>

\* consume(n)
consume(p, n) == [p EXCEPT !.len = USub(p.len, n)]

(***************************************************************************)
(* Error codes (enum class error) and the callbacks of the host.           *)
(***************************************************************************)
NoError == "ok"
Errors ==
    {"need_more", "bad_method", "bad_path", "bad_version", "bad_status",
     "bad_reason", "bad_field", "bad_value", "bad_content_length",
     "bad_transfer_encoding", "bad_chunk", "short_read"}

on_request(method, path, version) == <<"on_request", method, path, version>>
on_response(status, reason, version) == <<"on_response", status, reason, version>>
on_field(name, value) == <<"on_field", name, value>>
on_header == <<"on_header">>
on_chunk(size, ext) == <<"on_chunk", size, ext>>

(***************************************************************************)
(* token_list{value}: the tokens of a comma-separated list, in order.      *)
(***************************************************************************)
ListSeparators == {SP, HT, COMMA}

\* One token from cursor `it` on: [tok, it, more].
next_list_token(v, it) ==
    LET b == SkipWhile(v, it, ListSeparators)
        e == SkipWhile(v, b, TCharSet)
        a == SkipWhile(v, e, OWS)
    IN  IF e = b THEN [tok |-> << >>, it |-> e, more |-> FALSE]
        ELSE [tok |-> <<make_string(v, b, e)>>, it |-> a,
              more |-> a >= Len(v) \/ At(v, a) = COMMA]

RECURSIVE token_list_from(_, _)
token_list_from(v, it) ==
    CHOOSE out \in
        { IF r.more THEN r.tok \o token_list_from(v, r.it) ELSE r.tok :
            r \in {next_list_token(v, it)} } : TRUE

token_list(v) == token_list_from(v, 0)

NameContentLength == <<67, 111, 110, 116, 101, 110, 116, 45, 76, 101, 110, 103, 116, 104>>
NameTransferEncoding ==
    <<84, 114, 97, 110, 115, 102, 101, 114, 45, 69, 110, 99, 111, 100, 105, 110, 103>>
NameChunked == <<99, 104, 117, 110, 107, 101, 100>>

\* std::find_if over the token list: the index of the first token equal to
\* "chunked", or Len + 1 for end().
find_chunked(v) ==
    IF \E i \in 1 .. Len(v) : ci_equal(v[i], NameChunked)
    THEN CHOOSE i \in 1 .. Len(v) :
            /\ ci_equal(v[i], NameChunked)
            /\ \A j \in 1 .. i - 1 : ~ ci_equal(v[j], NameChunked)
    ELSE Len(v) + 1

\* std::next(it) != v.end() for an iterator of the token list.  Incrementing
\* v.end() is undefined behaviour: ub is what the comparison then yields.
next_is_not_end(v, i, ub) == IF i > Len(v) THEN ub ELSE i + 1 # Len(v) + 1

\* A variant of do_field whose Transfer-Encoding branch does not look at
\* flagContentLength.
do_field_NoLengthCheck(p, s, name, first, last) ==
    IF ci_equal(name, NameContentLength) THEN
        IF flagChunked \in p.f THEN [p |-> p, ec |-> "bad_content_length"]
        ELSE IF flagContentLength \in p.f
            THEN [p |-> p, ec |-> "bad_content_length"]
        ELSE LET d == parse_dec(s, first) IN
             IF ~ d.ok THEN [p |-> p, ec |-> "bad_content_length"]
             ELSE [p |-> [p EXCEPT !.len = d.v,
                                   !.f = @ \cup {flagContentLength}],
                   ec |-> NoError]
    ELSE IF ci_equal(name, NameTransferEncoding) THEN
        IF flagChunked \in p.f
            THEN [p |-> p, ec |-> "bad_transfer_encoding"]
        ELSE LET v == token_list(make_string(s, first, last))
                 it == find_chunked(v)
             IN  IF next_is_not_end(v, it, p.ub)
                    THEN [p |-> p, ec |-> "bad_transfer_encoding"]
                 ELSE [p |-> [p EXCEPT !.f = @ \cup {flagChunked}],
                       ec |-> NoError]
    ELSE [p |-> p, ec |-> NoError]

\* A variant of do_field whose Content-Length branch does not look at
\* flagChunked.
do_field_NoChunkedCheck(p, s, name, first, last) ==
    IF ci_equal(name, NameContentLength) THEN
        IF flagContentLength \in p.f
            THEN [p |-> p, ec |-> "bad_content_length"]
        ELSE LET d == parse_dec(s, first) IN
             IF ~ d.ok THEN [p |-> p, ec |-> "bad_content_length"]
             ELSE [p |-> [p EXCEPT !.len = d.v,
                                   !.f = @ \cup {flagContentLength}],
                   ec |-> NoError]
    ELSE IF ci_equal(name, NameTransferEncoding) THEN
        IF flagContentLength \in p.f
            THEN [p |-> p, ec |-> "bad_transfer_encoding"]
        ELSE IF flagChunked \in p.f
            THEN [p |-> p, ec |-> "bad_transfer_encoding"]
        ELSE LET v == token_list(make_string(s, first, last))
                 it == find_chunked(v)
             IN  IF next_is_not_end(v, it, p.ub)
                    THEN [p |-> p, ec |-> "bad_transfer_encoding"]
                 ELSE [p |-> [p EXCEPT !.f = @ \cup {flagChunked}],
                       ec |-> NoError]
    ELSE [p |-> p, ec |-> NoError]

(***************************************************************************)
(* do_field(name, value, ec): the value is [first, last) of the view s.    *)
(* Result [p, ec].                                                         *)
(***************************************************************************)
do_field(p, s, name, first, last) ==
    IF ci_equal(name, NameContentLength) THEN
        IF flagChunked \in p.f THEN [p |-> p, ec |-> "bad_content_length"]
        ELSE IF flagContentLength \in p.f
            THEN [p |-> p, ec |-> "bad_content_length"]
        ELSE LET d == parse_dec(s, first) IN
             IF ~ d.ok THEN [p |-> p, ec |-> "bad_content_length"]
             ELSE [p |-> [p EXCEPT !.len = d.v,
                                   !.f = @ \cup {flagContentLength}],
                   ec |-> NoError]
    ELSE IF ci_equal(name, NameTransferEncoding) THEN
        IF flagContentLength \in p.f
            THEN [p |-> p, ec |-> "bad_transfer_encoding"]
        ELSE IF flagChunked \in p.f
            THEN [p |-> p, ec |-> "bad_transfer_encoding"]
        ELSE LET v == token_list(make_string(s, first, last))
                 it == find_chunked(v)
             IN  IF next_is_not_end(v, it, p.ub)
                    THEN [p |-> p, ec |-> "bad_transfer_encoding"]
                 ELSE [p |-> [p EXCEPT !.f = @ \cup {flagChunked}],
                       ec |-> NoError]
    ELSE [p |-> p, ec |-> NoError]

(***************************************************************************)
(* parse_fields(it, ec): result [p, it, ec, cb].                           *)
(***************************************************************************)
\* A variant of value_loop that moves `last` over SP and HTAB as well.
RECURSIVE value_loop_KeepOWS(_, _, _)
value_loop_KeepOWS(s, it, last) ==
    IF At(s, it) = CR THEN
        IF At(s, it + 1) # LF
            THEN [ec |-> "bad_field", it |-> it + 1, last |-> last]
        ELSE IF At(s, it + 2) \notin OWS
            THEN [ec |-> NoError, it |-> it + 2, last |-> last]
        ELSE value_loop_KeepOWS(s, it + 3, it + 3)
    ELSE IF is_value_char(At(s, it)) \/ At(s, it) \in OWS
        THEN value_loop_KeepOWS(s, it + 1, it + 1)
    ELSE [ec |-> "bad_value", it |-> it, last |-> last]

\* A variant of value_loop that ends the value at the first CRLF, whatever
\* follows it.
RECURSIVE value_loop_NoFold(_, _, _)
value_loop_NoFold(s, it, last) ==
    IF At(s, it) = CR THEN
        IF At(s, it + 1) # LF
            THEN [ec |-> "bad_field", it |-> it + 1, last |-> last]
        ELSE [ec |-> NoError, it |-> it + 2, last |-> last]
    ELSE IF is_value_char(At(s, it)) THEN value_loop_NoFold(s, it + 1, it + 1)
    ELSE IF At(s, it) \in OWS THEN value_loop_NoFold(s, it + 1, last)
    ELSE [ec |-> "bad_value", it |-> it, last |-> last]

\* The loop that delimits a field value: [ec, it, last].
RECURSIVE value_loop(_, _, _)
value_loop(s, it, last) ==
    IF At(s, it) = CR THEN
        IF At(s, it + 1) # LF
            THEN [ec |-> "bad_field", it |-> it + 1, last |-> last]
        ELSE IF At(s, it + 2) \notin OWS
            THEN [ec |-> NoError, it |-> it + 2, last |-> last]
        \* obs-fold: the octet after the CRLF is SP or HTAB
        ELSE value_loop(s, it + 3, last)
    ELSE IF is_value_char(At(s, it)) THEN value_loop(s, it + 1, it + 1)
    ELSE IF At(s, it) \in OWS THEN value_loop(s, it + 1, last)
    ELSE [ec |-> "bad_value", it |-> it, last |-> last]

\* One pass of the outer loop: [p, it, ec, cb, more]; `more` tells that a
\* field was read and the loop goes on.
parse_field(p, s, it) ==
    IF At(s, it) = CR THEN
        IF At(s, it + 1) # LF
            THEN [p |-> p, it |-> it + 1, ec |-> "bad_field", cb |-> << >>,
                  more |-> FALSE]
        ELSE [p |-> p, it |-> it + 2, ec |-> NoError, cb |-> << >>,
              more |-> FALSE]
    ELSE
        LET e == SkipWhile(s, it, TCharSet) IN
        IF At(s, e) # COLON
            THEN [p |-> p, it |-> e, ec |-> "bad_field", cb |-> << >>,
                  more |-> FALSE]
        ELSE
            LET name == make_string(s, it, e)
                first == SkipWhile(s, e + 1, OWS)
                v == value_loop(s, first, first)
            IN  IF v.ec # NoError
                    THEN [p |-> p, it |-> v.it, ec |-> v.ec, cb |-> << >>,
                          more |-> FALSE]
                ELSE
                    LET d == do_field(p, s, name, first, v.last) IN
                    IF d.ec # NoError
                        THEN [p |-> d.p, it |-> v.it, ec |-> d.ec,
                              cb |-> << >>, more |-> FALSE]
                    ELSE [p |-> d.p, it |-> v.it, ec |-> NoError,
                          cb |-> <<on_field(name,
                                    make_string(s, first, v.last))>>,
                          more |-> TRUE]

RECURSIVE parse_fields(_, _, _, _)
parse_fields(p, s, it, cb) ==
    CHOOSE out \in
        { IF r.more THEN parse_fields(r.p, s, r.it, cb \o r.cb)
          ELSE [p |-> r.p, it |-> r.it, ec |-> r.ec, cb |-> cb \o r.cb] :
            r \in {parse_field(p, s, it)} } : TRUE

(***************************************************************************)
(* parse_startline(it, ec, isRequest): result [it, ec, cb].                *)
(***************************************************************************)
\* A variant of parse_startline for requests that takes a version with any
\* octets after it up to the end of the line.
parse_startline_request_LooseVersion(s, it0) ==
    LET method == parse_as(s, it0, TCharSet) IN
    IF method.str = << >>
        THEN [it |-> method.it, ec |-> "bad_method", cb |-> << >>]
    ELSE
    LET path == parse_as(s, method.it + 1, PathCharSet) IN
    IF path.str = << >>
        THEN [it |-> path.it, ec |-> "bad_path", cb |-> << >>]
    ELSE
    LET version == parse_version(s, path.it + 1)
        crlf == find_crlf(s, version.it)
    IN  IF version.v < 0 \/ crlf.first = crlf.second
            THEN [it |-> version.it, ec |-> "bad_version", cb |-> << >>]
        ELSE [it |-> crlf.second, ec |-> NoError,
              cb |-> <<on_request(method.str, path.str, version.v)>>]

parse_startline_request(s, it0) ==
    LET method == parse_as(s, it0, TCharSet) IN
    IF method.str = << >>
        THEN [it |-> method.it, ec |-> "bad_method", cb |-> << >>]
    ELSE
    LET path == parse_as(s, method.it + 1, PathCharSet) IN
    IF path.str = << >>
        THEN [it |-> path.it, ec |-> "bad_path", cb |-> << >>]
    ELSE
    LET version == parse_version(s, path.it + 1)
        crlf == parse_crlf(s, version.it)
    IN  IF version.v < 0 \/ ~ crlf.ok
            THEN [it |-> version.it, ec |-> "bad_version", cb |-> << >>]
        ELSE [it |-> crlf.it, ec |-> NoError,
              cb |-> <<on_request(method.str, path.str, version.v)>>]

parse_startline_response(s, it0) ==
    LET version == parse_version(s, it0) IN
    IF version.v < 0 \/ At(s, version.it) # SP
        THEN [it |-> version.it, ec |-> "bad_version", cb |-> << >>]
    ELSE
    LET status == parse_status(s, version.it + 1) IN
    IF status.v < 0 \/ At(s, status.it) # SP
        THEN [it |-> status.it, ec |-> "bad_status", cb |-> << >>]
    ELSE
    LET reason == parse_reason(s, status.it + 1)
        crlf == parse_crlf(s, reason.it)
    IN  IF reason.str = << >> \/ ~ crlf.ok
            THEN [it |-> reason.it, ec |-> "bad_reason", cb |-> << >>]
        ELSE [it |-> crlf.it, ec |-> NoError,
              cb |-> <<on_response(status.v, reason.str, version.v)>>]

parse_startline(s, it, isRequest) ==
    IF isRequest THEN parse_startline_request(s, it)
    ELSE parse_startline_response(s, it)

(***************************************************************************)
(* parse_header(p, n, ec) and parse_chunked(p, n, ec) over the view s.     *)
(* Result [p, n, ec, cb, ok]: the parser afterwards, the value returned,   *)
(* the error code, the callbacks made during the call, and whether the     *)
(* BOOST_ASSERTs met on the way held.                                      *)
(***************************************************************************)
Ret(p, n, ec, cb, ok) == [p |-> p, n |-> n, ec |-> ec, cb |-> cb, ok |-> ok]

\* A variant of parse_header that sets flagDone when the header declares a
\* Content-Length of zero.
parse_header_DoneIfEmpty(p, s, isRequest) ==
    LET n == Len(s) IN
    IF n < 4 THEN Ret(p, 0, "need_more", << >>, TRUE)
    ELSE
    LET term == find_2x_crlf(s, p.skip) IN
    IF term.first = term.second
        THEN Ret([p EXCEPT !.skip = n - 3], 0, "need_more", << >>, TRUE)
    ELSE
    LET p0 == [p EXCEPT !.skip = 0]
        sl == parse_startline(s, 0, isRequest)
    IN  IF sl.ec # NoError THEN Ret(p0, 0, sl.ec, sl.cb, TRUE)
        ELSE
        LET fl == parse_fields(p0, s, sl.it, sl.cb) IN
        IF fl.ec # NoError THEN Ret(fl.p, 0, fl.ec, fl.cb, TRUE)
        ELSE Ret([fl.p EXCEPT !.f =
                    @ \cup {flagHeader}
                      \cup (IF flagContentLength \in fl.p.f /\ fl.p.len = 0
                            THEN {flagDone} ELSE {})],
                 term.second, NoError, Append(fl.cb, on_header),
                 fl.it = term.second)

\* A variant of parse_header that leaves the last CRLF of the header out of
\* the count it returns.
parse_header_ShortCount(p, s, isRequest) ==
    LET n == Len(s) IN
    IF n < 4 THEN Ret(p, 0, "need_more", << >>, TRUE)
    ELSE
    LET term == find_2x_crlf(s, p.skip) IN
    IF term.first = term.second
        THEN Ret([p EXCEPT !.skip = n - 3], 0, "need_more", << >>, TRUE)
    ELSE
    LET p0 == [p EXCEPT !.skip = 0]
        sl == parse_startline(s, 0, isRequest)
    IN  IF sl.ec # NoError THEN Ret(p0, 0, sl.ec, sl.cb, TRUE)
        ELSE
        LET fl == parse_fields(p0, s, sl.it, sl.cb) IN
        IF fl.ec # NoError THEN Ret(fl.p, 0, fl.ec, fl.cb, TRUE)
        ELSE Ret([fl.p EXCEPT !.f = @ \cup {flagHeader}], term.second - 2,
                 NoError, Append(fl.cb, on_header), fl.it = term.second)

\* A variant of parse_header that invokes on_header right after the
\* start-line callback, before the fields.
parse_header_HeaderFirst(p, s, isRequest) ==
    LET n == Len(s) IN
    IF n < 4 THEN Ret(p, 0, "need_more", << >>, TRUE)
    ELSE
    LET term == find_2x_crlf(s, p.skip) IN
    IF term.first = term.second
        THEN Ret([p EXCEPT !.skip = n - 3], 0, "need_more", << >>, TRUE)
    ELSE
    LET p0 == [p EXCEPT !.skip = 0]
        sl == parse_startline(s, 0, isRequest)
    IN  IF sl.ec # NoError THEN Ret(p0, 0, sl.ec, sl.cb, TRUE)
        ELSE
        LET fl == parse_fields(p0, s, sl.it, sl.cb \o <<on_header>>) IN
        IF fl.ec # NoError THEN Ret(fl.p, 0, fl.ec, fl.cb, TRUE)
        ELSE Ret([fl.p EXCEPT !.f = @ \cup {flagHeader}], term.second,
                 NoError, fl.cb, fl.it = term.second)

\* A variant of parse_header whose next search starts where the failed one
\* ended, with no overlap for a terminator that straddles the two views.
parse_header_NoOverlap(p, s, isRequest) ==
    LET n == Len(s) IN
    IF n < 4 THEN Ret(p, 0, "need_more", << >>, TRUE)
    ELSE
    LET term == find_2x_crlf(s, p.skip) IN
    IF term.first = term.second
        THEN Ret([p EXCEPT !.skip = n], 0, "need_more", << >>, TRUE)
    ELSE
    LET p0 == [p EXCEPT !.skip = 0]
        sl == parse_startline(s, 0, isRequest)
    IN  IF sl.ec # NoError THEN Ret(p0, 0, sl.ec, sl.cb, TRUE)
        ELSE
        LET fl == parse_fields(p0, s, sl.it, sl.cb) IN
        IF fl.ec # NoError THEN Ret(fl.p, 0, fl.ec, fl.cb, TRUE)
        ELSE Ret([fl.p EXCEPT !.f = @ \cup {flagHeader}], term.second,
                 NoError, Append(fl.cb, on_header), fl.it = term.second)

parse_header(p, s, isRequest) ==
    LET n == Len(s) IN
    IF n < 4 THEN Ret(p, 0, "need_more", << >>, TRUE)
    ELSE
    LET term == find_2x_crlf(s, p.skip) IN
    IF term.first = term.second
        THEN Ret([p EXCEPT !.skip = n - 3], 0, "need_more", << >>, TRUE)
    ELSE
    LET p0 == [p EXCEPT !.skip = 0]
        sl == parse_startline(s, 0, isRequest)
    IN  IF sl.ec # NoError THEN Ret(p0, 0, sl.ec, sl.cb, TRUE)
        ELSE
        LET fl == parse_fields(p0, s, sl.it, sl.cb) IN
        IF fl.ec # NoError THEN Ret(fl.p, 0, fl.ec, fl.cb, TRUE)
        ELSE Ret([fl.p EXCEPT !.f = @ \cup {flagHeader}], term.second,
                 NoError, Append(fl.cb, on_header), fl.it = term.second)

\* The part of parse_chunked from the search for the end of the trailer on.
\* pp is the cursor p, n the count left after the chunk-data CRLF.
parse_trailer(p, s, pp, n, cb) ==
    LET term == find_2x_crlf(s, p.skip) IN
    IF term.first = term.second
        THEN Ret(IF n > 3 THEN [p EXCEPT !.skip = Len(s) - 3] ELSE p,
                 0, "need_more", cb, TRUE)
    ELSE
    LET again == flagFinalChunk \in p.f
        h == parse_hex(s, pp)
        p1 == IF again THEN h.it ELSE pp
        ok1 == again => (h.ok /\ h.v = 0)
        pf == [p EXCEPT !.f = @ \cup {flagFinalChunk}]
        ext == At(s, p1) = SEMI
        cb1 == IF ext THEN Append(cb, on_chunk(0, make_string(s, p1, p.x)))
               ELSE cb
        p2 == IF ext THEN p.x ELSE p1
        crlf == parse_crlf(s, p2)
    IN  IF ~ crlf.ok THEN Ret(pf, 0, "bad_chunk", cb1, ok1)
        ELSE
        LET fl == parse_fields(pf, s, crlf.it, cb1) IN
        IF fl.ec # NoError THEN Ret(fl.p, 0, fl.ec, fl.cb, ok1)
        ELSE Ret([fl.p EXCEPT !.f = @ \cup {flagDone}], fl.it, NoError,
                 fl.cb, ok1 /\ fl.it = term.second)

\* A variant of parse_chunk_size that sets flagFinalChunk as soon as it has
\* read a chunk size of zero, before the end of the trailer is found.
parse_chunk_size_EagerFinal(p, s, pp, n) ==
    IF n < 2 THEN Ret(p, 0, "need_more", << >>, TRUE)
    ELSE
    LET term == find_crlf(s, pp + p.skip) IN
    IF term.first = term.second
        THEN Ret([p EXCEPT !.skip = n - 1], 0, "need_more", << >>, TRUE)
    ELSE
    LET h == parse_hex(s, pp) IN
    IF ~ h.ok THEN Ret(p, 0, "bad_chunk", << >>, TRUE)
    ELSE IF h.v # 0 THEN
        IF At(s, h.it) # SEMI /\ h.it # term.first
            THEN Ret(p, 0, "bad_chunk", << >>, TRUE)
        ELSE Ret([p EXCEPT !.len = h.v, !.skip = 0,
                           !.f = @ \cup {flagExpectCRLF}],
                 term.second, NoError,
                 IF At(s, h.it) = SEMI
                    THEN <<on_chunk(h.v, make_string(s, h.it, term.first))>>
                    ELSE << >>,
                 TRUE)
    ELSE parse_trailer([p EXCEPT !.x = term.first, !.skip = term.first,
                                 !.f = @ \cup {flagFinalChunk}],
                       s, pp, n, << >>)

\* A variant of parse_chunk_size that takes any octet after a size that is
\* not zero as the start of the rest of the line.
parse_chunk_size_AnyOctet(p, s, pp, n) ==
    IF n < 2 THEN Ret(p, 0, "need_more", << >>, TRUE)
    ELSE
    LET term == find_crlf(s, pp + p.skip) IN
    IF term.first = term.second
        THEN Ret([p EXCEPT !.skip = n - 1], 0, "need_more", << >>, TRUE)
    ELSE
    LET h == parse_hex(s, pp) IN
    IF ~ h.ok THEN Ret(p, 0, "bad_chunk", << >>, TRUE)
    ELSE IF h.v # 0 THEN
        Ret([p EXCEPT !.len = h.v, !.skip = 0,
                      !.f = @ \cup {flagExpectCRLF}],
            term.second, NoError,
            IF At(s, h.it) = SEMI
               THEN <<on_chunk(h.v, make_string(s, h.it, term.first))>>
               ELSE << >>,
            TRUE)
    ELSE parse_trailer([p EXCEPT !.x = term.first, !.skip = term.first],
                       s, h.it, n, << >>)

\* The part of parse_chunked that reads a chunk-size line.
parse_chunk_size(p, s, pp, n) ==
    IF n < 2 THEN Ret(p, 0, "need_more", << >>, TRUE)
    ELSE
    LET term == find_crlf(s, pp + p.skip) IN
    IF term.first = term.second
        THEN Ret([p EXCEPT !.skip = n - 1], 0, "need_more", << >>, TRUE)
    ELSE
    LET h == parse_hex(s, pp) IN
    IF ~ h.ok THEN Ret(p, 0, "bad_chunk", << >>, TRUE)
    ELSE IF h.v # 0 THEN
        IF At(s, h.it) # SEMI /\ h.it # term.first
            THEN Ret(p, 0, "bad_chunk", << >>, TRUE)
        ELSE Ret([p EXCEPT !.len = h.v, !.skip = 0,
                           !.f = @ \cup {flagExpectCRLF}],
                 term.second, NoError,
                 IF At(s, h.it) = SEMI
                    THEN <<on_chunk(h.v, make_string(s, h.it, term.first))>>
                    ELSE << >>,
                 TRUE)
    ELSE parse_trailer([p EXCEPT !.x = term.first, !.skip = term.first],
                       s, h.it, n, << >>)

parse_chunked(p, s) ==
    LET n0 == Len(s) IN
    IF flagExpectCRLF \in p.f /\ n0 < 2
        THEN Ret(p, 0, "need_more", << >>, TRUE)
    ELSE IF flagExpectCRLF \in p.f /\ ~ parse_crlf(s, 0).ok
        THEN Ret(p, 0, "bad_chunk", << >>, TRUE)
    ELSE
    LET pp == IF flagExpectCRLF \in p.f THEN 2 ELSE 0
        n == n0 - pp
    IN  IF flagFinalChunk \notin p.f THEN parse_chunk_size(p, s, pp, n)
        ELSE parse_trailer(p, s, pp, n, << >>)

(***************************************************************************)
(* The operations of the driver interface.                                 *)
(***************************************************************************)
\* The octets of a sequence of buffers, in order.
RECURSIVE buffer_cat(_)
buffer_cat(buffers) ==
    IF buffers = << >> THEN << >>
    ELSE Head(buffers) \o buffer_cat(Tail(buffers))

\* maybe_flatten(buffers): [s, buf], the view that is parsed and the scratch
\* buffer afterwards.  No buffer gives the empty view and one buffer is
\* handed on in place.  Two or more are copied to the front of the scratch
\* buffer, which is replaced by one of their size when it is smaller and
\* otherwise keeps the octets it holds behind the copy; the view is the
\* whole scratch buffer, buf_len_ octets of it.
maybe_flatten(buf, buffers) ==
    IF Len(buffers) = 0 THEN [s |-> << >>, buf |-> buf]
    ELSE IF Len(buffers) = 1 THEN [s |-> buffers[1], buf |-> buf]
    ELSE LET data == buffer_cat(buffers)
             len == Len(data)
             b == IF len > Len(buf) THEN data
                  ELSE data \o SubSeq(buf, len + 1, Len(buf))
         IN  [s |-> b, buf |-> b]

\* write(buffers, ec) on the view s that maybe_flatten returns.  ec =
\* NoError: the call did not assign ec.
write(p, s, isRequest) ==
    IF flagHeader \notin p.f THEN parse_header(p, s, isRequest)
    ELSE IF flagChunked \in p.f THEN parse_chunked(p, s)
    ELSE Ret(p, 0, NoError, << >>, TRUE)

\* A variant of write_eof that reports short_read whenever the message is
\* not done, whatever its framing.
write_eof_Strict(p) ==
    IF flagDone \notin p.f THEN [p |-> p, ec |-> "short_read"]
    ELSE [p |-> p, ec |-> NoError]

\* A variant of write_eof that sets flagDone whatever the framing.
write_eof_Lenient(p) ==
    [p |-> [p EXCEPT !.f = @ \cup {flagDone}], ec |-> NoError]

\* write_eof(ec): [p, ec]
write_eof(p) ==
    IF p.f \cap {flagContentLength, flagChunked} # {} THEN
        IF flagDone \notin p.f THEN [p |-> p, ec |-> "short_read"]
        ELSE [p |-> p, ec |-> NoError]
    ELSE [p |-> [p EXCEPT !.f = @ \cup {flagDone}], ec |-> NoError]

\* A variant of write_body that moves the whole buffer, whatever len is.
write_body_NoClamp(p, size) ==
    IF flagContentLength \in p.f THEN
        LET l == USub(p.len, size) IN
        [p |-> [p EXCEPT !.len = l,
                         !.f = IF l = 0 THEN @ \cup {flagDone} ELSE @],
         moved |-> size]
    ELSE IF flagChunked \in p.f THEN
        [p |-> [p EXCEPT !.len = USub(p.len, size)], moved |-> size]
    ELSE [p |-> p, moved |-> size]

\* A variant of write_body that sets flagDone with chunked framing too.
write_body_ChunkedDone(p, size) ==
    LET n == clamp(p.len, size)
        l == USub(p.len, n)
    IN  IF p.f \cap {flagContentLength, flagChunked} # {} THEN
            [p |-> [p EXCEPT !.len = l,
                             !.f = IF l = 0 THEN @ \cup {flagDone} ELSE @],
             moved |-> n]
        ELSE [p |-> p, moved |-> n]

\* A variant of write_body that never sets flagDone.
write_body_NoDone(p, size) ==
    LET n == clamp(p.len, size) IN
    IF p.f \cap {flagContentLength, flagChunked} # {}
        THEN [p |-> [p EXCEPT !.len = USub(p.len, n)], moved |-> n]
    ELSE [p |-> p, moved |-> n]

\* A variant of write_body that, once the chunk has been moved, no longer
\* expects the CRLF that ends the chunk data.
write_body_ClearExpect(p, size) ==
    LET n == clamp(p.len, size) IN
    IF flagContentLength \in p.f THEN
        LET l == USub(p.len, n) IN
        [p |-> [p EXCEPT !.len = l,
                         !.f = IF l = 0 THEN @ \cup {flagDone} ELSE @],
         moved |-> n]
    ELSE IF flagChunked \in p.f THEN
        LET l == USub(p.len, n) IN
        [p |-> [p EXCEPT !.len = l,
                         !.f = IF l = 0 THEN @ \ {flagExpectCRLF} ELSE @],
         moved |-> n]
    ELSE [p |-> p, moved |-> n]

\* write_body(r, dynabuf, ec) with a reader that reports no error:
\* [p, moved]; `moved` octets leave the front of dynabuf for the reader.
write_body(p, size) ==
    LET n == clamp(p.len, size) IN
    IF flagContentLength \in p.f THEN
        LET l == USub(p.len, n) IN
        [p |-> [p EXCEPT !.len = l,
                         !.f = IF l = 0 THEN @ \cup {flagDone} ELSE @],
         moved |-> n]
    ELSE IF flagChunked \in p.f THEN
        [p |-> [p EXCEPT !.len = USub(p.len, n)], moved |-> n]
    ELSE [p |-> p, moved |-> n]

(***************************************************************************)
(* The octets the stream delivers, one definition per scenario.            *)
(***************************************************************************)
\* the response framed by Content-Length: 3, then the first octets of the
\* next message:
\* "HTTP/1.0 200 OK\r\nContent-Length: 3\r\n\r\nabcGE"
MsgLength ==
    <<
      72, 84, 84, 80, 47, 49, 46, 48, 32, 50, 48, 48, 32, 79, 75, 13,
      10, 67, 111, 110, 116, 101, 110, 116, 45, 76, 101, 110, 103, 116, 104, 58,
      32, 51, 13, 10, 13, 10, 97, 98, 99, 71, 69
    >>

\* the response framed by the end of the stream:
\* "HTTP/1.0 200 OK\r\nServer: t\r\n\r\nabc"
MsgEof ==
    <<
      72, 84, 84, 80, 47, 49, 46, 48, 32, 50, 48, 48, 32, 79, 75, 13,
      10, 83, 101, 114, 118, 101, 114, 58, 32, 116, 13, 10, 13, 10, 97, 98,
      99
    >>

\* two chunks, extensions, one trailer field:
\*   "HTTP/1.0 200 OK\r\nTransfer-Encoding: chunked\r\n\r\n2\r\nab\r\n1;"
\*   "x\r\nc\r\n0;d\r\nE: n\r\n\r\n"
MsgChunked ==
    <<
      72, 84, 84, 80, 47, 49, 46, 48, 32, 50, 48, 48, 32, 79, 75, 13,
      10, 84, 114, 97, 110, 115, 102, 101, 114, 45, 69, 110, 99, 111, 100, 105,
      110, 103, 58, 32, 99, 104, 117, 110, 107, 101, 100, 13, 10, 13, 10, 50,
      13, 10, 97, 98, 13, 10, 49, 59, 120, 13, 10, 99, 13, 10, 48, 59,
      100, 13, 10, 69, 58, 32, 110, 13, 10, 13, 10
    >>

\* one chunk, no extension, two trailer fields:
\*   "HTTP/1.0 200 OK\r\nTransfer-Encoding: chunked\r\n\r\n1\r\na\r\n0\r"
\*   "\nE: n\r\nM: -\r\n\r\n"
MsgChunkedPlain ==
    <<
      72, 84, 84, 80, 47, 49, 46, 48, 32, 50, 48, 48, 32, 79, 75, 13,
      10, 84, 114, 97, 110, 115, 102, 101, 114, 45, 69, 110, 99, 111, 100, 105,
      110, 103, 58, 32, 99, 104, 117, 110, 107, 101, 100, 13, 10, 13, 10, 49,
      13, 10, 97, 13, 10, 48, 13, 10, 69, 58, 32, 110, 13, 10, 77, 58,
      32, 45, 13, 10, 13, 10
    >>

\* the last-chunk alone, then the octets of a second last-chunk:
\*   "HTTP/1.0 200 OK\r\nTransfer-Encoding: chunked\r\n\r\n0\r\n\r\n0\r\"
\*   "nE: n\r\n\r\n"
MsgLastOnly ==
    <<
      72, 84, 84, 80, 47, 49, 46, 48, 32, 50, 48, 48, 32, 79, 75, 13,
      10, 84, 114, 97, 110, 115, 102, 101, 114, 45, 69, 110, 99, 111, 100, 105,
      110, 103, 58, 32, 99, 104, 117, 110, 107, 101, 100, 13, 10, 13, 10, 48,
      13, 10, 13, 10, 48, 13, 10, 69, 58, 32, 110, 13, 10, 13, 10
    >>

\* a chunked body whose trailer never ends:
\*   "HTTP/1.0 200 OK\r\nTransfer-Encoding: chunked\r\n\r\n1\r\na\r\n0\r"
\*   "\nE: n\r\n"
MsgTruncated ==
    <<
      72, 84, 84, 80, 47, 49, 46, 48, 32, 50, 48, 48, 32, 79, 75, 13,
      10, 84, 114, 97, 110, 115, 102, 101, 114, 45, 69, 110, 99, 111, 100, 105,
      110, 103, 58, 32, 99, 104, 117, 110, 107, 101, 100, 13, 10, 13, 10, 49,
      13, 10, 97, 13, 10, 48, 13, 10, 69, 58, 32, 110, 13, 10
    >>

\* a trailer that carries Content-Length:
\*   "HTTP/1.0 200 OK\r\nTransfer-Encoding: chunked\r\n\r\n0\r\nContent-"
\*   "Length: 1\r\n\r\n"
MsgTrailerLength ==
    <<
      72, 84, 84, 80, 47, 49, 46, 48, 32, 50, 48, 48, 32, 79, 75, 13,
      10, 84, 114, 97, 110, 115, 102, 101, 114, 45, 69, 110, 99, 111, 100, 105,
      110, 103, 58, 32, 99, 104, 117, 110, 107, 101, 100, 13, 10, 13, 10, 48,
      13, 10, 67, 111, 110, 116, 101, 110, 116, 45, 76, 101, 110, 103, 116, 104,
      58, 32, 49, 13, 10, 13, 10
    >>

\* Content-Length before Transfer-Encoding:
\*   "HTTP/1.0 200 OK\r\nContent-Length: 3\r\nTransfer-Encoding: chunked"
\*   "\r\n\r\n"
MsgLengthThenChunked ==
    <<
      72, 84, 84, 80, 47, 49, 46, 48, 32, 50, 48, 48, 32, 79, 75, 13,
      10, 67, 111, 110, 116, 101, 110, 116, 45, 76, 101, 110, 103, 116, 104, 58,
      32, 51, 13, 10, 84, 114, 97, 110, 115, 102, 101, 114, 45, 69, 110, 99,
      111, 100, 105, 110, 103, 58, 32, 99, 104, 117, 110, 107, 101, 100, 13, 10,
      13, 10
    >>

\* Transfer-Encoding before Content-Length:
\*   "HTTP/1.0 200 OK\r\nTransfer-Encoding: chunked\r\nContent-Length: 3"
\*   "\r\n\r\n"
MsgChunkedThenLength ==
    <<
      72, 84, 84, 80, 47, 49, 46, 48, 32, 50, 48, 48, 32, 79, 75, 13,
      10, 84, 114, 97, 110, 115, 102, 101, 114, 45, 69, 110, 99, 111, 100, 105,
      110, 103, 58, 32, 99, 104, 117, 110, 107, 101, 100, 13, 10, 67, 111, 110,
      116, 101, 110, 116, 45, 76, 101, 110, 103, 116, 104, 58, 32, 51, 13, 10,
      13, 10
    >>

\* the request with OWS around a value:
\* "GET / HTTP/1.1\r\nX: \t x \t \r\n\r\n"
MsgRequest ==
    <<
      71, 69, 84, 32, 47, 32, 72, 84, 84, 80, 47, 49, 46, 49, 13, 10,
      88, 58, 32, 9, 32, 120, 32, 9, 32, 13, 10, 13, 10
    >>

\* a header block cut off by the end of the stream:
\* "HTTP/1.0 200 OK\r\nServer: t\r\n"
MsgCutHeader ==
    <<
      72, 84, 84, 80, 47, 49, 46, 48, 32, 50, 48, 48, 32, 79, 75, 13,
      10, 83, 101, 114, 118, 101, 114, 58, 32, 116, 13, 10
    >>

\* the response with an empty body:
\* "HTTP/1.0 200 OK\r\nContent-Length: 0\r\n\r\n"
MsgLengthZero ==
    <<
      72, 84, 84, 80, 47, 49, 46, 48, 32, 50, 48, 48, 32, 79, 75, 13,
      10, 67, 111, 110, 116, 101, 110, 116, 45, 76, 101, 110, 103, 116, 104, 58,
      32, 48, 13, 10, 13, 10
    >>

\* "HTTP/1.0 200 OK\r\nTransfer-Encoding: chunked\r\n\r\n"
ChunkedHeader == SubSeq(MsgChunkedPlain, 1, 47)

\* a chunk whose data is longer than its size line says:
\*   ChunkedHeader "1\r\nab\r\n0\r\n\r\n"
MsgChunkNoCRLF ==
    ChunkedHeader \o <<49, 13, 10, 97, 98, 13, 10, 48, 13, 10, 13, 10>>

\* a chunk-size followed by a space:
\*   ChunkedHeader "1 \r\na\r\n0\r\n\r\n"
MsgChunkBadSize ==
    ChunkedHeader \o <<49, 32, 13, 10, 97, 13, 10, 48, 13, 10, 13, 10>>

\* a chunked message followed by octets that hold a CRLFCRLF:
\*   ChunkedHeader "1\r\na\r\n0\r\n\r\n" "X\r\n\r\n"
MsgChunkedThenMore ==
    ChunkedHeader \o <<49, 13, 10, 97, 13, 10, 48, 13, 10, 13, 10, 88, 13, 10, 13, 10>>

\* chunk sizes written with a leading zero:
\*   ChunkedHeader "01\r\na\r\n00\r\n\r\n"
MsgChunkedZeros ==
    ChunkedHeader \o <<48, 49, 13, 10, 97, 13, 10, 48, 48, 13, 10, 13, 10>>

\* The octets of the stream named m.
Wire(m) ==
    CASE m = "Length" -> MsgLength
      [] m = "LengthZero" -> MsgLengthZero
      [] m = "Eof" -> MsgEof
      [] m = "Chunked" -> MsgChunked
      [] m = "ChunkedPlain" -> MsgChunkedPlain
      [] m = "LastOnly" -> MsgLastOnly
      [] m = "Truncated" -> MsgTruncated
      [] m = "TrailerLength" -> MsgTrailerLength
      [] m = "LengthThenChunked" -> MsgLengthThenChunked
      [] m = "ChunkedThenLength" -> MsgChunkedThenLength
      [] m = "Request" -> MsgRequest
      [] m = "CutHeader" -> MsgCutHeader
      [] m = "ChunkNoCRLF" -> MsgChunkNoCRLF
      [] m = "ChunkBadSize" -> MsgChunkBadSize
      [] m = "ChunkedThenMore" -> MsgChunkedThenMore
      [] m = "ChunkedZeros" -> MsgChunkedZeros

\* The template argument isRequest of the parser that reads stream m.
IsRequest(m) == m \in {"Request", "Field", "RequestLine", "FieldName"}

(***************************************************************************)
(* Requests with one field X whose value has SP and HTAB before and after  *)
(* it, and may be folded over several lines.                               *)
(***************************************************************************)
\* The longest run of SP and HTAB before and after the value.
MaxOws == 2

OwsRuns == UNION { [1 .. n -> OWS] : n \in 0 .. MaxOws }

\* "GET / HTTP/1.1\r\nX:"
FieldPrefix ==
    <<71, 69, 84, 32, 47, 32, 72, 84, 84, 80, 47, 49, 46, 49, 13, 10, 88, 58>>

\* Folded values: "a\r\n b" and "a \r\n\t\tb\r\n c"
FoldedCores ==
    { <<97, 13, 10, 32, 98>>,
      <<97, 32, 13, 10, 9, 9, 98, 13, 10, 32, 99>> }

\* The values, from their first to their last octet: "x", "x \ty" and the
\* folded ones.
FieldCores == { <<120>>, <<120, 32, 9, 121>> } \cup FoldedCores

\* What follows the CRLF of the field: the blank line, or the field
\* "Y:c\r\n" and the blank line.
FieldRests == { <<CR, LF>>, <<89, 58, 99, 13, 10, 13, 10>> }

FieldWire(lead, core, trail, rest) ==
    FieldPrefix \o lead \o core \o trail \o <<CR, LF>> \o rest

FieldWires ==
    { FieldWire(l, c, t, r) :
        l \in OwsRuns, c \in FieldCores, t \in OwsRuns, r \in FieldRests }

\* The decimal digits that write n.
RECURSIVE DecDigits(_)
DecDigits(n) ==
    IF n < 10 THEN <<48 + n>>
    ELSE DecDigits(n \div 10) \o <<48 + (n % 10)>>

(***************************************************************************)
(* Responses whose header has the field Content-Length, once or twice.     *)
(***************************************************************************)
\* "HTTP/1.0 200 OK\r\nContent-Length:"
LengthPrefix ==
    <<72, 84, 84, 80, 47, 49, 46, 48, 32, 50, 48, 48, 32, 79, 75, 13, 10, 67, 111, 110, 116, 101, 110, 116, 45, 76, 101, 110, 103, 116, 104, 58>>

\* Values of the field: "", "x", "-1", "0", "3", "12", "3x", "3 4", "12,3"
\* and the first value the accumulator cannot hold.
LengthValues ==
    { << >>, <<120>>, <<45, 49>>, <<48>>, <<51>>, <<49, 50>>, <<51, 120>>,
      <<51, SP, 52>>, <<49, 50, COMMA, 51>>, DecDigits(UintMax + 1) }

\* What follows the CRLF of the field: the blank line, or a second field
\* Content-Length with the value "3" or "12" and the blank line.
LengthRests ==
    LET name == SubSeq(LengthPrefix, 18, Len(LengthPrefix)) IN
    { <<CR, LF>>,
      name \o <<SP, 51, CR, LF, CR, LF>>,
      name \o <<SP, 49, 50, CR, LF, CR, LF>> }

LengthWire(v, r) == LengthPrefix \o <<SP>> \o v \o <<CR, LF>> \o r

(***************************************************************************)
(* Responses whose header has the field Transfer-Encoding with a list of   *)
(* tokens.                                                                 *)
(***************************************************************************)
\* "HTTP/1.0 200 OK\r\nTransfer-Encoding:"
EncodingPrefix ==
    <<72, 84, 84, 80, 47, 49, 46, 48, 32, 50, 48, 48, 32, 79, 75, 13, 10, 84, 114, 97, 110, 115, 102, 101, 114, 45, 69, 110, 99, 111, 100, 105, 110, 103, 58>>

\* The most tokens in a list.
MaxTokens == 3

\* "chunked", "Chunked" and "gzip"
EncodingTokens ==
    { NameChunked, <<67>> \o Tail(NameChunked), <<103, 122, 105, 112>> }

EncodingLists == UNION { [1 .. n -> EncodingTokens] : n \in 0 .. MaxTokens }

\* The tokens of l, separated by ", ".
RECURSIVE JoinTokens(_)
JoinTokens(l) ==
    IF l = << >> THEN << >>
    ELSE IF Len(l) = 1 THEN l[1]
    ELSE l[1] \o <<COMMA, SP>> \o JoinTokens(Tail(l))

EncodingWire(l) ==
    EncodingPrefix \o <<SP>> \o JoinTokens(l) \o <<CR, LF, CR, LF>>

(***************************************************************************)
(* Requests whose request-line is a method, SP, a target, SP, a version    *)
(* and CRLF, each of the three well formed or not, and that have no field. *)
(***************************************************************************)
\* "", "GET", "M-1", "G@T", "G(T"
LineMethods ==
    { << >>, <<71, 69, 84>>, <<77, 45, 49>>, <<71, 64, 84>>,
      <<71, 40, 84>> }

\* "", "/", "/a?b=1", "*"
LineTargets ==
    { << >>, <<47>>, <<47, 97, 63, 98, 61, 49>>, <<42>> }

\* "HTTP/1.1", "HTTP/1.0", "HTTP/2.7", "", "HTTP/1", "HTTP/1.", "HTTP/11",
\* "HTTP/1.10", "HTTP/a.1", "HTTP/1,1", "http/1.1", "HTTPS/1.1", "HTTP/1.1 ",
\* "HTTP/1.1\r"
LineVersions ==
    { <<72, 84, 84, 80, 47, 49, 46, 49>>,
      <<72, 84, 84, 80, 47, 49, 46, 48>>,
      <<72, 84, 84, 80, 47, 50, 46, 55>>, << >>,
      <<72, 84, 84, 80, 47, 49>>, <<72, 84, 84, 80, 47, 49, 46>>,
      <<72, 84, 84, 80, 47, 49, 49>>,
      <<72, 84, 84, 80, 47, 49, 46, 49, 48>>,
      <<72, 84, 84, 80, 47, 97, 46, 49>>,
      <<72, 84, 84, 80, 47, 49, 44, 49>>,
      <<104, 116, 116, 112, 47, 49, 46, 49>>,
      <<72, 84, 84, 80, 83, 47, 49, 46, 49>>,
      <<72, 84, 84, 80, 47, 49, 46, 49, 32>>,
      <<72, 84, 84, 80, 47, 49, 46, 49, 13>> }

RequestLineWire(m, g, v) ==
    m \o <<SP>> \o g \o <<SP>> \o v \o <<CR, LF, CR, LF>>

(***************************************************************************)
(* Responses whose status-line is "HTTP/1.1 404 ", a reason-phrase and the *)
(* end of the line, and that have no field.                                *)
(***************************************************************************)
\* "HTTP/1.1 404 "
StatusPrefix == <<72, 84, 84, 80, 47, 49, 46, 49, 32, 52, 48, 52, 32>>

\* "", "OK", "Not Found", "a\tb", and with an octet that is not text:
\* "a" 1 "b", 127 and "No" 0
LineReasons ==
    { << >>, <<79, 75>>, <<78, 111, 116, 32, 70, 111, 117, 110, 100>>, <<97, HT, 98>>,
      <<97, 1, 98>>, <<127>>, <<78, 111, 0>> }

\* What ends the line: CRLF, or a CR that no LF follows.
LineEnds == { <<CR, LF>>, <<CR, 88, CR, LF>>, <<CR, CR, LF>> }

StatusLineWire(r, e) == StatusPrefix \o r \o e \o <<CR, LF>>

(***************************************************************************)
(* Requests with one field whose name is well formed or not, followed by   *)
(* the field "Y:c".                                                        *)
(***************************************************************************)
\* "", "X", "X-1", "X Y", "X@", " X" and "X" 0
FieldNames ==
    { << >>, <<88>>, <<88, 45, 49>>, <<88, SP, 89>>, <<88, 64>>, <<SP, 88>>,
      <<88, 0>> }

\* "GET / HTTP/1.1\r\n", the field with the name n and the value v, then
\* "Y:c" and the blank line.
FieldNameWire(n, v) ==
    SubSeq(FieldPrefix, 1, 16) \o n \o <<COLON>> \o v \o <<CR, LF, 89, 58, 99, CR, LF, CR, LF>>

\* The header families and the streams of each.
HeaderMsgs ==
    {"LengthField", "Encoding", "RequestLine", "StatusLine", "FieldName"}

HeaderWires(m) ==
    CASE m = "LengthField" ->
            { LengthWire(v, r) : v \in LengthValues, r \in LengthRests }
      [] m = "Encoding" -> { EncodingWire(l) : l \in EncodingLists }
      [] m = "RequestLine" ->
            { RequestLineWire(a, g, v) :
                a \in LineMethods, g \in LineTargets, v \in LineVersions }
      [] m = "StatusLine" ->
            { StatusLineWire(r, e) : r \in LineReasons, e \in LineEnds }
      [] m = "FieldName" ->
            { FieldNameWire(n, v) : n \in FieldNames, v \in FieldCores }

\* Streams that start with one whole, valid message.
ValidMsgs == {"Length", "Eof", "Chunked", "ChunkedPlain", "Request"}

\* Streams given to the read loop, and to a driver that calls the
\* operations in any order.
ReadMsgs ==
    ValidMsgs \cup {"Truncated", "CutHeader", "LengthThenChunked",
                    "ChunkedThenLength", "LengthZero", "ChunkNoCRLF",
                    "ChunkBadSize", "ChunkedThenMore", "ChunkedZeros",
                    "LastOnly"}
FreeMsgs ==
    {"Length", "Eof", "Chunked", "LastOnly", "Truncated", "TrailerLength",
     "LengthThenChunked", "ChunkedThenLength", "Request", "CutHeader"}

(***************************************************************************)
(* State.                                                                  *)
(***************************************************************************)
VARIABLES
    msg,        \* the stream being read (test::string_istream): its name
    wire,       \* the octets of that stream
    pos,        \* octets taken from the stream so far
    dynabuf,    \* the octets of the DynamicBuffer
    f_, len_, skip_, x_,    \* the members of new_basic_parser
    buf_,       \* its scratch buffer: the buf_len_ octets buf_ points to
    cb,         \* the callbacks the host has received, in order
    body,       \* str_body::reader: the octets committed to body_
    ec,         \* the error_code after the last call
    ret,        \* the value the last write returned
    consumed,   \* the sum of the values returned by the writes without error
    op,         \* the last operation: its name
    pc,         \* new_read: the place in the loop
    failed,     \* a call has reported an error other than need_more
    eof,        \* write_eof has been called
    asserts     \* no BOOST_ASSERT of the parser has failed

vars ==
    <<msg, wire, pos, dynabuf, f_, len_, skip_, x_, buf_, cb, body, ec, ret,
      consumed, op, pc, failed, eof, asserts>>

P == [f |-> f_, len |-> len_, skip |-> skip_, x |-> x_]

\* The parser as a call of write finds it: its members and ub, what undefined
\* behaviour yields in that call.
PU(u) == [f |-> f_, len |-> len_, skip |-> skip_, x |-> x_, ub |-> u]

SetP(q) ==
    /\ f_' = q.f
    /\ len_' = q.len
    /\ skip_' = q.skip
    /\ x_' = q.x

avail == Len(wire) - pos

\* The next k octets of the stream.
Peek(k) == SubSeq(wire, pos + 1, pos + k)

\* dynabuf.consume(n)
Drop(b, n) == SubSeq(b, n + 1, Len(b))

IsFailure(e) == e \notin {NoError, "need_more"}

InitCommon ==
    /\ pos = 0
    /\ dynabuf = << >>
    /\ f_ = NewParser.f
    /\ len_ = NewParser.len
    /\ skip_ = NewParser.skip
    /\ x_ = NewParser.x
    /\ buf_ = << >>
    /\ cb = << >>
    /\ body = << >>
    /\ ec = NoError
    /\ ret = 0
    /\ consumed = 0
    /\ op = "new"
    /\ failed = FALSE
    /\ eof = FALSE
    /\ asserts = TRUE

(***************************************************************************)
(* A driver that calls the operations of the parser in any order.          *)
(***************************************************************************)
\* The most callbacks the host has received when a further write is made.
MaxCallbacks == 8

\* The count of octets up to and including the next LF of the stream, or
\* all that is left of it.
LineLen(w, i) ==
    LET e == SkipWhile(w, i, (0 .. 255) \ {LF}) IN
    IF e >= Len(w) THEN Len(w) - i ELSE e + 1 - i

\* Streams whose body also arrives one octet at a time.
TrickleMsgs == {"Truncated"}

\* stream.read_some into dynabuf.prepare(len), then dynabuf.commit: the
\* stream hands over a line or all it has left and, for a trickling stream
\* whose header has been parsed, a single octet as well.
Recv(k) ==
    /\ k \in {LineLen(wire, pos), avail}
                \cup (IF msg \in TrickleMsgs /\ have_header(P)
                      THEN {1} ELSE {})
    /\ k > 0
    /\ k <= avail
    /\ pos' = pos + k
    /\ dynabuf' = dynabuf \o Peek(k)
    /\ op' = "recv"
    /\ UNCHANGED <<msg, wire, buf_, consumed, f_, len_, skip_, x_, cb, body, ec, ret, pc, failed,
                   eof, asserts>>

\* n = p.write(dynabuf.data(), ec); dynabuf.consume(n)
Write ==
    /\ Len(cb) < MaxCallbacks
    /\ \E u \in BOOLEAN : \E w \in {write(PU(u), dynabuf, IsRequest(msg))} :
        /\ SetP(w.p)
        /\ cb' = cb \o w.cb
        /\ ec' = w.ec
        /\ ret' = w.n
        /\ consumed' = (IF w.ec = NoError THEN consumed + w.n ELSE consumed)
        /\ dynabuf' = Drop(dynabuf, w.n)
        /\ failed' = (failed \/ IsFailure(w.ec))
        /\ asserts' = (asserts /\ w.ok)
    /\ op' = "write"
    /\ UNCHANGED <<msg, wire, buf_, pos, body, pc, eof>>

\* p.write_body(r, dynabuf, ec)
WriteBody ==
    /\ \E wb \in {write_body(P, Len(dynabuf))} :
        /\ SetP(wb.p)
        /\ body' = body \o SubSeq(dynabuf, 1, wb.moved)
        /\ dynabuf' = Drop(dynabuf, wb.moved)
    /\ ec' = NoError
    /\ op' = "write_body"
    /\ UNCHANGED <<msg, wire, buf_, consumed, pos, cb, ret, pc, failed, eof, asserts>>

\* p.write_eof(ec)
WriteEof ==
    /\ \E we \in {write_eof(P)} :
        /\ SetP(we.p)
        /\ ec' = we.ec
        /\ failed' = (failed \/ IsFailure(we.ec))
    /\ eof' = TRUE
    /\ op' = "write_eof"
    /\ UNCHANGED <<msg, wire, buf_, consumed, pos, dynabuf, cb, body, ret, pc, asserts>>

\* stream.read_some(r.prepare(remain)); r.commit(k); p.consume(k): octets
\* of the body that go from the stream to the reader, the buffer being empty.
Consume(k) ==
    /\ have_header(P)
    /\ dynabuf = << >>
    /\ k \in {1, Min(remain(P), avail)}
    /\ k > 0
    /\ k <= remain(P)
    /\ k <= avail
    /\ SetP(consume(P, k))
    /\ body' = body \o Peek(k)
    /\ pos' = pos + k
    /\ ec' = NoError
    /\ op' = "consume"
    /\ UNCHANGED <<msg, wire, buf_, consumed, dynabuf, cb, ret, pc, failed, eof, asserts>>

Init ==
    /\ msg \in FreeMsgs
    /\ wire = Wire(msg)
    /\ pc = "free"
    /\ InitCommon

Next ==
    \/ \E k \in 1 .. Len(wire) : Recv(k)
    \/ Write
    \/ WriteBody
    \/ WriteEof
    \/ \E k \in 1 .. Len(wire) : Consume(k)

Spec == Init /\ [][Next]_vars

(***************************************************************************)
(* The header loop of new_read on the requests with the field X: octets    *)
(* arrive, and write is called until the header has been parsed.           *)
(***************************************************************************)
InitField ==
    /\ msg = "Field"
    /\ wire \in FieldWires
    /\ pc = "free"
    /\ InitCommon

FieldWrite ==
    /\ ~ have_header(P)
    /\ ~ failed
    /\ Write

NextField ==
    \/ \E k \in 1 .. Len(wire) : Recv(k)
    \/ FieldWrite

SpecField == InitField /\ [][NextField]_vars

(***************************************************************************)
(* A driver whose DynamicBuffer hands its octets to write as two buffers.   *)
(***************************************************************************)
FlattenMsgs == {"Length", "Truncated", "Request"}

\* n = p.write(dynabuf.data(), ec); dynabuf.consume(n), where data() is a
\* sequence of two buffers, neither of them empty, that holds the first i
\* octets in the first.
WriteRanges(i) ==
    /\ Len(cb) < MaxCallbacks
    /\ ~ failed
    /\ \E fl \in {maybe_flatten(buf_, <<SubSeq(dynabuf, 1, i),
                                        SubSeq(dynabuf, i + 1, Len(dynabuf))>>)} :
       \E u \in BOOLEAN : \E w \in {write(PU(u), fl.s, IsRequest(msg))} :
        /\ buf_' = fl.buf
        /\ SetP(w.p)
        /\ cb' = cb \o w.cb
        /\ ec' = w.ec
        /\ ret' = w.n
        /\ consumed' = (IF w.ec = NoError THEN consumed + w.n ELSE consumed)
        /\ dynabuf' = Drop(dynabuf, Min(w.n, Len(dynabuf)))
        /\ failed' = (failed \/ IsFailure(w.ec))
        /\ asserts' = (asserts /\ w.ok)
    /\ op' = "write"
    /\ UNCHANGED <<msg, wire, pos, body, pc, eof>>

InitFlatten ==
    /\ msg \in FlattenMsgs
    /\ wire = Wire(msg)
    /\ pc = "free"
    /\ InitCommon

NextFlatten ==
    \/ \E k \in 1 .. Len(wire) : Recv(k)
    \/ \E i \in 1 .. Len(dynabuf) - 1 : WriteRanges(i)
    \/ WriteBody

SpecFlatten == InitFlatten /\ [][NextFlatten]_vars

(***************************************************************************)
(* parse_hex on runs of hex digits, as parse_chunked calls it on the       *)
(* chunk-size line: the run is followed by the CRLF that ends the line.    *)
(***************************************************************************)
\* The longest run of digits: one more than the width of the accumulator
\* holds.
MaxHexLen == 6

\* '0', '1', '8', 'F', 'f'
HexDigits == {48, 49, 56, 70, 102}

HexRuns == UNION { [1 .. n -> HexDigits] : n \in 1 .. MaxHexLen }

InitHex ==
    /\ msg = "Hex"
    /\ wire \in { r \o <<CR, LF>> : r \in HexRuns }
    /\ pc = "hex"
    /\ InitCommon

\* std::uint64_t v; parse_hex(p, v): ret is v, pos the cursor p afterwards.
HexParse ==
    /\ pc = "hex"
    /\ \E h \in {parse_hex(wire, 0)} :
        /\ ret' = h.v
        /\ pos' = h.it
        /\ ec' = (IF h.ok THEN NoError ELSE "bad_chunk")
    /\ pc' = "hex_done"
    /\ op' = "parse_hex"
    /\ UNCHANGED <<msg, wire, buf_, dynabuf, f_, len_, skip_, x_, cb, body, consumed,
                   failed, eof, asserts>>

NextHex == HexParse

SpecHex == InitHex /\ [][NextHex]_vars

(***************************************************************************)
(* parse_dec on runs of digits, as do_field calls it on the value of       *)
(* Content-Length: the run is followed by the CRLF that ends the line.     *)
(***************************************************************************)
\* The longest run of digits: one more than the width of the accumulator
\* holds.
MaxDecLen == 8

\* How far below the largest value of the accumulator the runs reach.
NearMax == 12

\* The empty run, the runs of '0', '1' and '9', and the values next to the
\* largest one.
DecRuns ==
    {<< >>}
        \cup UNION { [1 .. n -> {48, 49, 57}] : n \in 1 .. MaxDecLen }
        \cup { DecDigits(n) : n \in UintMax - NearMax .. UintMax + NearMax }

InitDec ==
    /\ msg = "Dec"
    /\ wire \in { r \o <<CR, LF>> : r \in DecRuns }
    /\ pc = "dec"
    /\ InitCommon

\* std::uint64_t v; parse_dec(value.begin(), value.end(), v): ret is v.
DecParse ==
    /\ pc = "dec"
    /\ \E d \in {parse_dec(wire, 0)} :
        /\ ret' = d.v
        /\ ec' = (IF d.ok THEN NoError ELSE "bad_content_length")
    /\ pc' = "dec_done"
    /\ op' = "parse_dec"
    /\ UNCHANGED <<msg, wire, buf_, pos, dynabuf, f_, len_, skip_, x_, cb, body,
                   consumed, failed, eof, asserts>>

NextDec == DecParse

SpecDec == InitDec /\ [][NextDec]_vars

(***************************************************************************)
(* The header loop of new_read on the header families: octets arrive, and  *)
(* write is called until the header has been parsed or has failed.         *)
(***************************************************************************)
InitHeader ==
    /\ msg \in HeaderMsgs
    /\ wire \in HeaderWires(msg)
    /\ pc = "free"
    /\ InitCommon

NextHeader ==
    \/ \E k \in 1 .. Len(wire) : Recv(k)
    \/ FieldWrite

SpecHeader == InitHeader /\ [][NextHeader]_vars

(***************************************************************************)
(* new_read(stream, dynabuf, msg, ec): the loop that reads one message.    *)
(***************************************************************************)
\* The test  while(! p.done())  and, when it fails, r.finish(ec).
LoopTest(q) == IF done(q) THEN "done" ELSE "body"

\* The loops "Read and parse header" and "maybe read chunk delimiter":
\* n = p.write(dynabuf.data(), ec), then consume, return, or read more.
RdWrite ==
    /\ pc \in {"hdr", "body"}
    /\ \E u \in BOOLEAN : \E w \in {write(PU(u), dynabuf, IsRequest(msg))} :
        /\ SetP(w.p)
        /\ cb' = cb \o w.cb
        /\ ec' = w.ec
        /\ ret' = w.n
        /\ consumed' = (IF w.ec = NoError THEN consumed + w.n ELSE consumed)
        /\ dynabuf' = Drop(dynabuf, w.n)
        /\ failed' = (failed \/ IsFailure(w.ec))
        /\ asserts' = (asserts /\ w.ok
                        /\ ((pc = "hdr" /\ w.ec = NoError)
                                => (have_header(w.p) /\ ~ done(w.p))))
        /\ pc' = IF IsFailure(w.ec) THEN "returned"
                 ELSE IF w.ec = "need_more"
                    THEN (IF pc = "hdr" THEN "hdr_read" ELSE "body_read")
                 ELSE IF pc = "hdr" THEN LoopTest(w.p)
                 ELSE "write_body"
    /\ op' = "write"
    /\ UNCHANGED <<msg, wire, buf_, pos, body, eof>>

\* stream.read_some(dynabuf.prepare(len), ec) after need_more: k octets
\* arrive, or the stream is at its end and new_read returns.
RdReadSome(k) ==
    /\ pc \in {"hdr_read", "body_read"}
    /\ avail > 0
    /\ k \in 1 .. avail
    /\ pos' = pos + k
    /\ dynabuf' = dynabuf \o Peek(k)
    /\ ec' = NoError
    /\ pc' = IF pc = "hdr_read" THEN "hdr" ELSE "body"
    /\ op' = "recv"
    /\ UNCHANGED <<msg, wire, buf_, consumed, f_, len_, skip_, x_, cb, body, ret, failed, eof,
                   asserts>>

RdReadEof ==
    /\ pc \in {"hdr_read", "body_read"}
    /\ avail = 0
    /\ IF pc = "hdr_read"
          THEN \E we \in {write_eof(P)} :
                /\ SetP(we.p)
                /\ ec' = (IF we.ec = NoError THEN "eof" ELSE we.ec)
                /\ eof' = TRUE
                /\ op' = "write_eof"
          ELSE /\ ec' = "eof"
               /\ op' = "recv"
               /\ UNCHANGED <<f_, len_, skip_, x_, eof>>
    /\ failed' = TRUE
    /\ pc' = "returned"
    /\ UNCHANGED <<msg, wire, buf_, consumed, pos, dynabuf, cb, body, ret, asserts>>

\* p.write_body(r, dynabuf, ec): "copy body bytes in buffer"
RdWriteBody ==
    /\ pc = "write_body"
    /\ \E wb \in {write_body(P, Len(dynabuf))} :
        /\ SetP(wb.p)
        /\ body' = body \o SubSeq(dynabuf, 1, wb.moved)
        /\ dynabuf' = Drop(dynabuf, wb.moved)
    /\ ec' = NoError
    /\ pc' = "remain"
    /\ op' = "write_body"
    /\ UNCHANGED <<msg, wire, buf_, consumed, pos, cb, ret, failed, eof, asserts>>

\* "read remaining part of chunk": one pass of the loop that reads k
\* octets from the stream into r.prepare(remain) and calls p.consume(k).
RdRemain(k) ==
    /\ pc = "remain"
    /\ remain(P) # 0
    /\ avail > 0
    /\ k \in 1 .. Min(remain(P), avail)
    /\ SetP(consume(P, k))
    /\ body' = body \o Peek(k)
    /\ pos' = pos + k
    /\ ec' = NoError
    /\ op' = "consume"
    /\ UNCHANGED <<msg, wire, buf_, consumed, dynabuf, cb, ret, pc, failed, eof, asserts>>

\* The same loop when remain() is zero: back to the test of the outer loop.
RdRemainDone ==
    /\ pc = "remain"
    /\ remain(P) = 0
    /\ pc' = LoopTest(P)
    /\ op' = "remain"
    /\ UNCHANGED <<msg, wire, buf_, consumed, pos, dynabuf, f_, len_, skip_, x_, cb, body, ec, ret,
                   failed, eof, asserts>>

\* The same loop when read_some reports eof: p.write_eof(ec).
RdRemainEof ==
    /\ pc = "remain"
    /\ remain(P) # 0
    /\ avail = 0
    /\ \E we \in {write_eof(P)} :
        /\ SetP(we.p)
        /\ ec' = we.ec
        /\ failed' = (failed \/ IsFailure(we.ec))
        /\ asserts' = (asserts /\ (we.ec = NoError => done(we.p)))
        /\ pc' = IF we.ec # NoError THEN "returned" ELSE LoopTest(we.p)
    /\ eof' = TRUE
    /\ op' = "write_eof"
    /\ UNCHANGED <<msg, wire, buf_, consumed, pos, dynabuf, cb, body, ret>>

InitRead ==
    /\ msg \in ReadMsgs
    /\ wire = Wire(msg)
    /\ pc = "hdr"
    /\ InitCommon

NextRead ==
    \/ RdWrite
    \/ \E k \in 1 .. Len(wire) : RdReadSome(k)
    \/ RdReadEof
    \/ RdWriteBody
    \/ \E k \in 1 .. Len(wire) : RdRemain(k)
    \/ RdRemainDone
    \/ RdRemainEof

SpecRead == InitRead /\ [][NextRead]_vars

(***************************************************************************)
(* The run of new_read in which the first read_some delivers the whole     *)
(* stream: every write sees all the octets not yet consumed.               *)
(***************************************************************************)
RECURSIVE OneBufferBody(_, _, _, _)
OneBufferBody(m, q, buf, cbs) ==
    IF done(q) THEN [p |-> q, cb |-> cbs, ec |-> NoError]
    ELSE CHOOSE out \in
        { IF w.ec # NoError THEN [p |-> w.p, cb |-> cbs \o w.cb, ec |-> w.ec]
          ELSE LET rest == Drop(buf, w.n)
                   wb == write_body(w.p, Len(rest))
                   we == write_eof(wb.p)
               IN  IF remain(wb.p) = 0
                      THEN OneBufferBody(m, wb.p, Drop(rest, wb.moved),
                                         cbs \o w.cb)
                   ELSE IF we.ec # NoError
                      THEN [p |-> we.p, cb |-> cbs \o w.cb, ec |-> we.ec]
                   ELSE OneBufferBody(m, we.p, Drop(rest, wb.moved),
                                      cbs \o w.cb) :
            w \in {write(q, buf, IsRequest(m))} } : TRUE

OneBuffer(m) ==
    CHOOSE out \in
        { IF h.ec # NoError THEN [p |-> h.p, cb |-> h.cb, ec |-> h.ec]
          ELSE OneBufferBody(m, h.p, Drop(Wire(m), h.n), h.cb) :
            h \in {write(NewParser, Wire(m), IsRequest(m))} } : TRUE

(***************************************************************************)
(* C1: for every valid message and every split of its octets into the      *)
(* segments that read_some delivers, the read loop ends with done() true   *)
(* and the host has received the same callbacks, with the same arguments,  *)
(* as when the whole message is in the buffer at the first write.          *)
(***************************************************************************)
C1_SplitEquivalence ==
    (msg \in ValidMsgs /\ pc \in {"done", "returned"})
        => /\ pc = "done"
           /\ done(P)
           /\ done(OneBuffer(msg).p)
           /\ cb = OneBuffer(msg).cb


(***************************************************************************)
(* C2: once done() is true, every later write returns zero, consumes no    *)
(* input, invokes no callback and leaves done() true, whatever the framing *)
(* and whatever the view.                                                  *)
(***************************************************************************)
C2_WriteAfterDone ==
    [][(done(P) /\ op' = "write")
            => /\ ret' = 0
               /\ dynabuf' = dynabuf
               /\ cb' = cb
               /\ flagDone \in f_']_vars

\* The octets of the stream m up to and including the end of its header.
HeaderLen(m) == find_2x_crlf(Wire(m), 0).second

\* s is a prefix of t.
IsPrefix(s, t) == Len(s) <= Len(t) /\ s = SubSeq(t, 1, Len(s))

\* "abc", the three octets that stream "Length" declares as its body.
BodyABC == <<97, 98, 99>>

(***************************************************************************)
(* C3: a message framed by Content-Length: N delivers to the reader        *)
(* exactly the N octets after the header terminator, done() is true once   *)
(* they have been transferred, and no write_eof is needed: the read loop   *)
(* ends with the body "abc", never reads past it into the reader, never    *)
(* fails and never announces the end of the stream.                        *)
(***************************************************************************)
C3_ContentLengthBody ==
    msg = "Length"
        => /\ pc # "returned"
           /\ ~ failed
           /\ ~ eof
           /\ IsPrefix(body, BodyABC)
           /\ (op = "write_body" /\ body = BodyABC) => done(P)
           /\ pc = "done" => (done(P) /\ body = BodyABC)

C3_Witness ==
    /\ msg = "Length"
    /\ pc = "done"
    /\ body = BodyABC
    /\ dynabuf # << >>

\* The chunk data and the trailer fields of the chunked streams.
ChunkData(m) == IF m = "Chunked" THEN BodyABC ELSE <<97>>
TrailerFields(m) ==
    IF m = "Chunked" THEN <<on_field(<<69>>, <<110>>)>>
    ELSE <<on_field(<<69>>, <<110>>), on_field(<<77>>, <<45>>)>>

\* The on_field callbacks delivered after on_header.
FieldsAfterHeader(cbs) ==
    IF \A i \in 1 .. Len(cbs) : cbs[i] # on_header THEN << >>
    ELSE LET h == CHOOSE i \in 1 .. Len(cbs) : cbs[i] = on_header
         IN  SelectSeq(SubSeq(cbs, h + 1, Len(cbs)),
                       LAMBDA c : c[1] = "on_field")

(***************************************************************************)
(* C4: a well-formed chunked message driven as new_read drives it ends     *)
(* with done() true, the body equal to the concatenation of the chunk data *)
(* in wire order (no size line, extension or CRLF in it), and the trailer  *)
(* fields delivered through on_field in wire order.                        *)
(***************************************************************************)
C4_ChunkedBody ==
    (msg \in {"Chunked", "ChunkedPlain"} /\ pc \in {"done", "returned"})
        => /\ pc = "done"
           /\ done(P)
           /\ body = ChunkData(msg)
           /\ FieldsAfterHeader(cb) = TrailerFields(msg)

(***************************************************************************)
(* C5: for a message whose header names neither Content-Length nor chunked *)
(* encoding, write_eof after the header sets done() and reports no error,  *)
(* and the body is every octet that arrived after the header terminator.   *)
(***************************************************************************)
C5_EofFramedBody ==
    msg \in {"Eof", "Request"}
        => /\ pc # "returned"
           /\ ~ failed
           /\ IsPrefix(body, Drop(Wire(msg), HeaderLen(msg)))
           /\ done(P) => eof
           /\ op = "write_eof"
                => /\ done(P)
                   /\ ec = NoError
                   /\ body = Drop(Wire(msg), HeaderLen(msg))

C5_Witness ==
    /\ msg = "Eof"
    /\ op = "write_eof"
    /\ done(P)
    /\ body = BodyABC

(***************************************************************************)
(* C6: when Content-Length or chunked framing was declared and done() is   *)
(* false, write_eof reports short_read and done() stays false; when done() *)
(* is already true, write_eof reports no error.                            *)
(***************************************************************************)
C6_WriteEofShortRead ==
    [][op' = "write_eof"
        => /\ (f_ \cap {flagContentLength, flagChunked} # {} /\ ~ done(P))
                => (ec' = "short_read" /\ flagDone \notin f_')
           /\ done(P) => (ec' = NoError /\ flagDone \in f_')]_vars

C6_Witness ==
    /\ op = "write_eof"
    /\ ec = "short_read"
    /\ have_header(P)
    /\ f_ \cap {flagContentLength, flagChunked} # {}
    /\ ~ done(P)

(***************************************************************************)
(* C7: for a chunked message whose input never holds the CRLFCRLF that     *)
(* ends the trailer, every write after the last complete chunk returns     *)
(* need_more (and consumes nothing), done() never becomes true however the *)
(* input grows, and a following write_eof reports short_read.              *)
(***************************************************************************)
C7_UnterminatedTrailer ==
    [][(msg = "Truncated" /\ have_header(P) /\ ~ eof /\ ~ failed)
        => /\ flagDone \notin f_'
           /\ (flagExpectCRLF \in f_ /\ len_ = 0)
                => /\ op' = "write" => (ec' = "need_more" /\ ret' = 0)
                   /\ op' = "write_eof" => ec' = "short_read"]_vars

C7_Witness ==
    /\ msg = "Truncated"
    /\ flagExpectCRLF \in f_
    /\ len_ = 0
    /\ pos = Len(Wire(msg))
    /\ dynabuf = Drop(Wire(msg), HeaderLen(msg) + 4)
    /\ skip_ > 0
    /\ op = "write_eof"
    /\ ec = "short_read"

(***************************************************************************)
(* C8: a header with both Content-Length and Transfer-Encoding: chunked is *)
(* rejected: with Content-Length first the error is bad_transfer_encoding, *)
(* with Transfer-Encoding first it is bad_content_length, and have_header  *)
(* stays false.                                                            *)
(***************************************************************************)
C8_BothFramings ==
    /\ msg \in {"LengthThenChunked", "ChunkedThenLength"}
        => /\ ~ have_header(P)
           /\ pc \notin {"body", "done"}
           /\ (op = "write" /\ pos = Len(Wire(msg))) => failed
    /\ (msg = "LengthThenChunked" /\ failed) => ec = "bad_transfer_encoding"
    /\ (msg = "ChunkedThenLength" /\ failed) => ec = "bad_content_length"

C8_Witness ==
    /\ msg = "LengthThenChunked"
    /\ op = "write"
    /\ ec = "bad_transfer_encoding"
    /\ flagContentLength \in f_
    /\ pc = "returned"

(***************************************************************************)
(* C9: in every state with have_header() true, including after a parsed    *)
(* or rejected trailer, flagContentLength and flagChunked are not both     *)
(* set.                                                                    *)
(***************************************************************************)
C9_OneFraming ==
    have_header(P) => ~ ({flagContentLength, flagChunked} \subseteq f_)

C9_Witness ==
    /\ msg = "TrailerLength"
    /\ have_header(P)
    /\ flagFinalChunk \in f_
    /\ ec = "bad_content_length"

(***************************************************************************)
(* C10: in every reachable state done() is true if and only if the framing *)
(* rule in effect has been satisfied: Content-Length framing and the       *)
(* remaining length is zero, or chunked framing and the final chunk with   *)
(* its trailer has been consumed, or no framing after the header and the   *)
(* end of the stream has been announced.                                   *)
(***************************************************************************)
FramingSatisfied ==
    /\ have_header(P)
    /\ \/ flagContentLength \in f_ /\ len_ = 0
       \/ flagChunked \in f_ /\ flagFinalChunk \in f_ /\ len_ = 0
       \/ needs_eof(P) /\ eof

C10_DoneIffFramingSatisfied ==
    /\ done(P) => FramingSatisfied
    /\ (have_header(P) /\ flagChunked \notin f_ /\ FramingSatisfied) => done(P)

RECURSIVE WireFieldNamesFrom(_, _)
WireFieldNamesFrom(w, i) ==
    IF i >= Len(w) \/ w[i + 1] = CR THEN << >>
    ELSE CHOOSE out \in
        { (IF w[i + 1] \in OWS THEN << >>
           ELSE <<SubSeq(w, i + 1, find_pat(w, i, <<COLON>>))>>)
              \o WireFieldNamesFrom(w, e + 2) :
            e \in {find_pat(w, i, <<CR, LF>>)} } : TRUE

WireFieldNames(w) == WireFieldNamesFrom(w, find_pat(w, 0, <<CR, LF>>) + 2)

\* The place of on_header among the callbacks, or one past the last.
HeaderIndex(cbs) ==
    IF \A i \in 1 .. Len(cbs) : cbs[i] # on_header THEN Len(cbs) + 1
    ELSE CHOOSE i \in 1 .. Len(cbs) : cbs[i] = on_header

\* The names given to on_field before on_header.
HeaderFieldNames(cbs) ==
    LET fs == SelectSeq(SubSeq(cbs, 1, HeaderIndex(cbs) - 1),
                        LAMBDA c : c[1] = "on_field")
    IN  [i \in 1 .. Len(fs) |-> fs[i][2]]

MessageLen(m) ==
    IF m = "Length" THEN HeaderLen(m) + Len(BodyABC) ELSE Len(Wire(m))

C15_WriteBodyFlags ==
    [][op' = "write_body"
        => IF flagContentLength \in f_
              THEN f_' = (IF len_' = 0 THEN f_ \cup {flagDone} ELSE f_)
           ELSE IF flagChunked \in f_
              THEN f_' = f_ /\ len_' = len_ - Min(len_, Len(dynabuf))
           ELSE f_' = f_ /\ len_' = len_]_vars

C15_Witness ==
    /\ msg = "Chunked"
    /\ op = "write_body"
    /\ flagChunked \in f_
    /\ flagExpectCRLF \in f_
    /\ body = SubSeq(BodyABC, 1, 2)
    /\ len_ = 0
    /\ ~ done(P)

(***************************************************************************)
(* C16: a write that reports need_more returns zero, consumes nothing,     *)
(* invokes no callback and leaves the flags and len as they were; only the *)
(* scan offsets skip_ and x_ may change.                                   *)
(***************************************************************************)
C16_NeedMoreFrame ==
    [][(op' = "write" /\ ec' = "need_more")
        => /\ ret' = 0
           /\ dynabuf' = dynabuf
           /\ cb' = cb
           /\ f_' = f_
           /\ len_' = len_]_vars

C16_Witness ==
    /\ msg = "Truncated"
    /\ op = "write"
    /\ ec = "need_more"
    /\ have_header(P)
    /\ flagExpectCRLF \in f_
    /\ skip_ > 0
    /\ x_ > 0

\* What the host receives for the request FieldWire(l, c, t, r).
FieldCallbacks(c, r) ==
    <<on_request(<<71, 69, 84>>, <<47>>, 11), on_field(<<88>>, c)>>
        \o (IF r = <<CR, LF>> THEN << >> ELSE <<on_field(<<89>>, <<99>>)>>)
        \o <<on_header>>

(***************************************************************************)
(* C17: the value passed to on_field excludes every SP and HTAB between    *)
(* the colon and the first value octet and between the last value octet    *)
(* and the terminating CRLF, for every run of SP and HTAB on either side:  *)
(* once the header is in the buffer write parses it, and the value of X is *)
(* the value from its first to its last octet.                             *)
(***************************************************************************)
C17_ValueWithoutOWS ==
    msg = "Field"
        => /\ (op = "write" /\ pos = Len(wire)) => (have_header(P) /\ ~ failed)
           /\ have_header(P)
                => \A l \in OwsRuns, c \in FieldCores, t \in OwsRuns,
                      r \in FieldRests :
                        wire = FieldWire(l, c, t, r)
                            => cb[2] = on_field(<<88>>, c)

C17_Witness ==
    /\ msg = "Field"
    /\ have_header(P)
    /\ \E c \in FieldCores, r \in FieldRests :
        /\ wire = FieldWire(<<SP, HT>>, c, <<HT, SP>>, r)
        /\ cb[2] = on_field(<<88>>, c)

(***************************************************************************)
(* C18: a value continued over several lines, each continuation line       *)
(* starting with SP or HTAB, is accepted as one field whose value holds    *)
(* the folded CRLFs and the whitespace between its first and last octet    *)
(* verbatim; a CRLF followed by anything else ends the value, so that the  *)
(* next line is the next field or the end of the header.                   *)
(***************************************************************************)
C18_ObsFold ==
    \A l \in OwsRuns, c \in FoldedCores, t \in OwsRuns, r \in FieldRests :
        (msg = "Field" /\ wire = FieldWire(l, c, t, r))
            => /\ ~ failed
               /\ (op = "write" /\ pos = Len(wire)) => have_header(P)
               /\ have_header(P) => cb = FieldCallbacks(c, r)

C18_Witness ==
    /\ msg = "Field"
    /\ have_header(P)
    /\ \E c \in FoldedCores, r \in FieldRests \ {<<CR, LF>>} :
        /\ wire = FieldWire(<<SP>>, c, <<HT>>, r)
        /\ cb = FieldCallbacks(c, r)

(***************************************************************************)
(* C19: when the stream ends before a complete header has been parsed      *)
(* (have_header() is false), write_eof reports an error on that call and   *)
(* does not complete the message.                                          *)
(***************************************************************************)
C19_EofBeforeHeader ==
    [][(~ have_header(P) /\ op' = "write_eof")
        => (IsFailure(ec') /\ flagDone \notin f_')]_vars

(***************************************************************************)
(* C20: right after the write call that consumes the header without error, *)
(* have_header() is true and done() is false, for every message, a request *)
(* without a body and a message with Content-Length: 0 included.           *)
(***************************************************************************)
C20_HeaderThenNotDone ==
    [][(pc = "hdr" /\ op' = "write" /\ ec' = NoError)
        => /\ ret' > 0
           /\ flagHeader \in f_'
           /\ flagDone \notin f_']_vars

C20_Witness ==
    /\ msg = "LengthZero"
    /\ op = "write"
    /\ ec = NoError
    /\ pc = "body"
    /\ ret = Len(wire)
    /\ have_header(P)
    /\ content_length(P) = <<0>>
    /\ ~ done(P)

\* The value of the Content-Length field of stream m's header: <<n>>, or
\* << >> when the header has no such field.
DeclaredLength(m) ==
    IF m = "Length" THEN <<Len(BodyABC)>>
    ELSE IF m = "LengthZero" THEN <<0>>
    ELSE << >>

(***************************************************************************)
(* C21: once the header is parsed, content_length() is absent exactly when *)
(* the header had no Content-Length field and otherwise returns the        *)
(* declared value, also after part or all of the body has been moved.      *)
(***************************************************************************)
C21_ContentLengthValue ==
    (msg \in ValidMsgs \cup {"LengthZero"} /\ have_header(P))
        => content_length(P) = DeclaredLength(msg)

(***************************************************************************)
(* C22: a write whose input is given as two or more buffers gives the same *)
(* result as a write of the single buffer that holds their octets in       *)
(* order: the view that is parsed has their total size and exactly their   *)
(* octets, also when an earlier write of several buffers was larger.       *)
(***************************************************************************)
C22_FlattenEquivalence ==
    [][op' = "write"
        => LET w == write(P, dynabuf, IsRequest(msg)) IN
           /\ buf_' = dynabuf
           /\ ret' = w.n
           /\ ec' = w.ec
           /\ cb' = cb \o w.cb
           /\ <<f_', len_', skip_', x_'>> = <<w.p.f, w.p.len, w.p.skip, w.p.x>>]_vars

(***************************************************************************)
(* C23: the set of flags only grows: no operation (write, write_body,      *)
(* write_eof, consume) removes a flag, so have_header(), is_chunked() and  *)
(* done() never go back to false.                                          *)
(***************************************************************************)
C23_FlagsOnlyGrow ==
    [][f_ \subseteq f_']_vars

\* A write has parsed the trailer of a chunked message: every flag set by
\* the earlier operations is still there.
C23_Witness ==
    /\ op = "write"
    /\ f_ = {flagChunked, flagHeader, flagDone, flagExpectCRLF, flagFinalChunk}

\* The count of octets of s up to and including its first CRLFCRLF, or 0
\* when s holds none.
TerminatorEnd(s) ==
    LET at == { i \in 1 .. Len(s) - 3 : SubSeq(s, i, i + 3) = <<CR, LF, CR, LF>> }
    IN  IF at = {} THEN 0
        ELSE (CHOOSE i \in at : \A j \in at : i <= j) + 3

\* Streams whose header is complete and well formed.
GoodHeaderMsgs == ReadMsgs \ {"LengthThenChunked", "ChunkedThenLength", "CutHeader"}

(***************************************************************************)
(* C24: the scan for the end of the header over a buffer that grows.  A    *)
(* write whose view has fewer than 4 octets reports need_more; a search    *)
(* that fails over n octets sets skip to n - 3; the header is parsed by    *)
(* the first write whose view holds a complete CRLFCRLF, also one that     *)
(* straddles the end of an earlier view, and that write returns the offset *)
(* just past the terminator, resets skip to 0 and sets have_header().      *)
(***************************************************************************)
C24_HeaderScan ==
    [][(pc = "hdr" /\ op' = "write")
        => LET n == Len(dynabuf)
               t == TerminatorEnd(dynabuf)
           IN  /\ n < 4 => (ec' = "need_more" /\ ret' = 0)
               /\ (n >= 4 /\ t = 0)
                    => (ec' = "need_more" /\ ret' = 0 /\ skip_' = n - 3)
               /\ (t > 0 /\ msg \in GoodHeaderMsgs)
                    => /\ ec' = NoError
                       /\ ret' = t
                       /\ skip_' = 0
                       /\ flagHeader \in f_']_vars

\* The search failed over a view that ended between the two CRLF of the
\* terminator and left skip 3 octets before that end; the rest of the
\* terminator has arrived since.
C24_Witness ==
    /\ msg = "Request"
    /\ pc = "hdr"
    /\ op = "recv"
    /\ ~ have_header(P)
    /\ skip_ = TerminatorEnd(wire) - 5
    /\ TerminatorEnd(dynabuf) = TerminatorEnd(wire)

(***************************************************************************)
(* C25: every write in which the search for a terminator succeeds (the     *)
(* CRLFCRLF of the header, the CRLF of a chunk-size line, the CRLFCRLF of  *)
(* the trailer) leaves skip equal to zero on return.  A write that returns *)
(* a count above zero without error has found the terminator it looked     *)
(* for.                                                                    *)
(***************************************************************************)
C25_SkipResetOnSuccess ==
    [][(op' = "write" /\ ec' = NoError /\ ret' > 0) => skip_' = 0]_vars

\* The index in s of the CR of the first CRLF that starts after the first e
\* octets, or 0 when there is none.
FirstCRLF(s, e) ==
    LET at == { i \in e + 1 .. Len(s) - 1 : s[i] = CR /\ s[i + 1] = LF }
    IN  IF at = {} THEN 0 ELSE CHOOSE i \in at : \A j \in at : i <= j

(***************************************************************************)
(* C26: the write that reads a chunk-size line.  When the CRLF that ends   *)
(* the data of the chunk before is expected, the view must start with it,  *)
(* otherwise the write reports bad_chunk.  For a complete size line whose  *)
(* size is not zero and is followed directly by ';' or by the CRLF, the    *)
(* write sets len to the size, sets the flag that expects the CRLF after   *)
(* the data, and returns the count of octets up to and including the CRLF  *)
(* of the size line, the 2 octets of the CRLF before it included when that *)
(* was expected; any other octet after the size gives bad_chunk.  Stated   *)
(* for sizes of one hex digit.                                             *)
(***************************************************************************)
C26_ChunkSizeLine ==
    [][(/\ op' = "write"
        /\ pc = "body"
        /\ flagChunked \in f_
        /\ f_ \cap {flagFinalChunk, flagDone} = {})
        => LET v == dynabuf
               e == IF flagExpectCRLF \in f_ THEN 2 ELSE 0
               q == FirstCRLF(v, e)
               sz == unhex(At(v, e))
               c == At(v, e + 1)
           IN  /\ (e = 2 /\ Len(v) >= 2 /\ SubSeq(v, 1, 2) # <<CR, LF>>)
                    => (ec' = "bad_chunk" /\ ret' = 0)
               /\ (/\ e = 2 => (Len(v) >= 2 /\ SubSeq(v, 1, 2) = <<CR, LF>>)
                   /\ q > 0
                   /\ sz > 0
                   /\ unhex(c) < 0)
                    => IF c = SEMI \/ q = e + 2
                       THEN /\ ec' = NoError
                            /\ len_' = sz
                            /\ flagExpectCRLF \in f_'
                            /\ ret' = q + 1
                       ELSE ec' = "bad_chunk" /\ ret' = 0]_vars

\* The write that read "\r\n1;x\r\n": the CRLF after the data of the first
\* chunk, then the size line of the second with its extension.
C26_Witness ==
    /\ msg = "Chunked"
    /\ op = "write"
    /\ ec = NoError
    /\ ret = 7
    /\ len_ = 1
    /\ flagExpectCRLF \in f_
    /\ flagFinalChunk \notin f_
    /\ body = <<97, 98>>

\* The on_chunk callbacks among cbs, in order.
ChunkCallbacks(cbs) == SelectSeq(cbs, LAMBDA c : c[1] = "on_chunk")

(***************************************************************************)
(* C27: on_chunk is invoked exactly once for each chunk that has an        *)
(* extension and never for one without; its size argument is the size of   *)
(* the chunk, 0 for the last chunk, and its text is exactly the octets     *)
(* from the ';' up to, not including, the CRLF that ends that size line,   *)
(* however the input was split.  Stream "Chunked" has the chunks "2",      *)
(* "1;x" and "0;d".                                                        *)
(***************************************************************************)
C27_ChunkExtensions ==
    (msg = "Chunked" /\ flagDone \in f_)
        => ChunkCallbacks(cb) = <<on_chunk(1, <<SEMI, 120>>),
                                  on_chunk(0, <<SEMI, 100>>)>>

\* The count of octets of the chunked message that stream "ChunkedThenMore"
\* starts with.
ChunkedThenMoreLen == Len(MsgChunkedThenMore) - 5

(***************************************************************************)
(* C28: whenever parse_chunked completes the trailer without error, its    *)
(* cursor is exactly at the end of the CRLFCRLF that its search located,   *)
(* so the assertion p == term.second holds, and the count it returns is    *)
(* the offset of the end of the terminator of the message's own trailer,   *)
(* for every split of the input and whatever octets follow the message in  *)
(* the view.                                                               *)
(***************************************************************************)
C28_TrailerEnd ==
    (msg = "ChunkedThenMore")
        => /\ asserts
           /\ flagDone \in f_ => consumed + Len(body) = ChunkedThenMoreLen

(***************************************************************************)
(* C29: a last-chunk whose size is written with one or more '0' digits     *)
(* ("0", "00", "000") is accepted as the final chunk, which leads to the   *)
(* trailer and to done(), and a size that is not zero written with leading *)
(* zeros yields its numeric value.  Stream "ChunkedZeros" has the chunk    *)
(* "01" with the data "a" and the last-chunk "00".                         *)
(***************************************************************************)
C29_LeadingZeros ==
    (msg = "ChunkedZeros")
        => /\ ~ failed
           /\ IsPrefix(body, <<97>>)
           /\ pc = "done" => (flagDone \in f_ /\ body = <<97>>)

\* The number that the hex digits s[1 .. n] write.
RECURSIVE HexValue(_, _)
HexValue(s, n) ==
    IF n = 0 THEN 0 ELSE 16 * HexValue(s, n - 1) + unhex(s[n])

(***************************************************************************)
(* C30: on a run of hex digits the accumulator either fails or returns the *)
(* exact value the digits write; it succeeds whenever that value fits in   *)
(* the unsigned width, and never returns a value that has wrapped around.  *)
(***************************************************************************)
C30_HexExact ==
    pc = "hex_done"
        => LET val == HexValue(wire, Len(wire) - 2) IN
           /\ ec = NoError => ret = val
           /\ val <= UintMax => ec = NoError

\* The number that the decimal digits s[1 .. n] write.
RECURSIVE DecValue(_, _)
DecValue(s, n) ==
    IF n = 0 THEN 0 ELSE 10 * DecValue(s, n - 1) + (s[n] - 48)

(***************************************************************************)
(* C31: on a run of one or more digits the decimal accumulator succeeds    *)
(* with the exact value if and only if that value fits in the unsigned     *)
(* width of the result, the largest value of that width included, and it   *)
(* fails on an empty run.                                                  *)
(***************************************************************************)
C31_DecExact ==
    pc = "dec_done"
        => LET n == Len(wire) - 2
               val == DecValue(wire, n)
           IN  /\ n = 0 => ec # NoError
               /\ n > 0 => (ec = NoError <=> val <= UintMax)
               /\ ec = NoError => ret = val

\* v is one or more digits that write a value the accumulator holds.
IsDecimal(v) ==
    /\ Len(v) > 0
    /\ \A i \in 1 .. Len(v) : v[i] \in Digits
    /\ DecValue(v, Len(v)) <= UintMax

(***************************************************************************)
(* C32: a Content-Length field whose whole value is not a decimal unsigned *)
(* number of the width of len (empty, first octet not a digit, digits      *)
(* followed by other octets, overflow) yields bad_content_length; so does  *)
(* a second Content-Length field, even with the same value; otherwise the  *)
(* flag for Content-Length is set and len equals the value.                *)
(***************************************************************************)
C32_ContentLengthField ==
    (msg = "LengthField" /\ op = "write" /\ ec # "need_more")
        => \A v \in LengthValues, r \in LengthRests :
            wire = LengthWire(v, r)
                => IF IsDecimal(v) /\ r = <<CR, LF>>
                   THEN /\ ec = NoError
                        /\ flagContentLength \in f_
                        /\ len_ = DecValue(v, Len(v))
                   ELSE ec = "bad_content_length"

\* The indices of the tokens of l that are "chunked", whatever their case.
ChunkedAt(l) == { i \in 1 .. Len(l) : ci_equal(l[i], NameChunked) }

(***************************************************************************)
(* C33: for a Transfer-Encoding field seen when no framing flag is set,    *)
(* the last chunked token of the list decides: the field is rejected with  *)
(* bad_transfer_encoding exactly when a chunked token appears and the last *)
(* one is not the final token of the list; in every other case, a list     *)
(* with chunked repeated and last and a list with no chunked token         *)
(* included, the flag for chunked is set.                                  *)
(***************************************************************************)
C33_LastChunkedToken ==
    (msg = "Encoding" /\ op = "write" /\ ec # "need_more")
        => \A l \in EncodingLists :
            wire = EncodingWire(l)
                => IF ChunkedAt(l) # {} /\ Len(l) \notin ChunkedAt(l)
                   THEN ec = "bad_transfer_encoding"
                   ELSE ec = NoError /\ flagChunked \in f_

\* m is a method: one or more token octets.
GoodMethod(m) == m # << >> /\ \A i \in 1 .. Len(m) : m[i] \in TCharSet

\* v is HTTP/d.d.
GoodVersion(v) ==
    /\ Len(v) = 8
    /\ SubSeq(v, 1, 5) = HTTPSlash
    /\ v[6] \in Digits
    /\ v[7] = 46
    /\ v[8] \in Digits

(***************************************************************************)
(* C34: a request-line is accepted exactly when it is a method of one or   *)
(* more token octets, SP, a target that is not empty, SP, HTTP/d.d and     *)
(* CRLF, and on_request then receives the method, the target and the       *)
(* version 10 * major + minor.  An empty method or one that is not a token *)
(* gives bad_method, an empty target gives bad_path, and any deviation in  *)
(* the version or a missing CRLF after it gives bad_version, with no call  *)
(* of on_request.                                                          *)
(***************************************************************************)
C34_RequestLine ==
    (msg = "RequestLine" /\ op = "write" /\ ec # "need_more")
        => \A m \in LineMethods, g \in LineTargets, v \in LineVersions :
            wire = RequestLineWire(m, g, v)
                => IF GoodMethod(m) /\ g # << >> /\ GoodVersion(v)
                   THEN /\ ec = NoError
                        /\ cb = <<on_request(m, g, 10 * (v[6] - 48) + (v[8] - 48)),
                                  on_header>>
                   ELSE /\ cb = << >>
                        /\ ec = (IF ~ GoodMethod(m) THEN "bad_method"
                                 ELSE IF g = << >> THEN "bad_path"
                                 ELSE "bad_version")

\* The request-line "M-1 /a?b=1 HTTP/2.7" has been accepted.
C34_Witness ==
    /\ msg = "RequestLine"
    /\ op = "write"
    /\ ec = NoError
    /\ cb[1] = on_request(<<77, 45, 49>>, <<47, 97, 63, 98, 61, 49>>, 27)

(***************************************************************************)
(* C35: a status-line whose reason-phrase is empty (the version, SP, a     *)
(* status of three digits, SP, CRLF) is accepted, and on_response receives *)
(* the status, an empty reason and the version; a reason with an octet     *)
(* that is not text before the CR, or a CR that no LF follows, gives       *)
(* bad_reason.                                                             *)
(***************************************************************************)
C35_ReasonPhrase ==
    (msg = "StatusLine" /\ op = "write" /\ ec # "need_more")
        => \A r \in LineReasons, e \in LineEnds :
            wire = StatusLineWire(r, e)
                => IF (\A i \in 1 .. Len(r) : r[i] \in TextSet) /\ e = <<CR, LF>>
                   THEN /\ ec = NoError
                        /\ cb = <<on_response(404, r, 11), on_header>>
                   ELSE ec = "bad_reason" /\ cb = << >>

(***************************************************************************)
(* C36: a header or trailer line whose field name is empty (the line       *)
(* starts with ':') or has an octet that is not a token octet before the   *)
(* ':' is rejected with bad_field, and on_field is not called for it.      *)
(***************************************************************************)
C36_FieldName ==
    (msg = "FieldName" /\ op = "write" /\ ec # "need_more")
        => \A n \in FieldNames, v \in FieldCores :
            wire = FieldNameWire(n, v)
                => IF GoodMethod(n)
                   THEN ec = NoError /\ cb[2] = on_field(n, v)
                   ELSE /\ ec = "bad_field"
                        /\ cb = <<on_request(<<71, 69, 84>>, <<47>>, 11)>>

(***************************************************************************)
(* C37: in every reachable state, whatever the order of the calls of       *)
(* write, write_body and write_eof, done() true implies have_header()      *)
(* true.                                                                   *)
(***************************************************************************)
C37_DoneImpliesHeader ==
    done(P) => have_header(P)

(***************************************************************************)
(* C38: in every reachable state of the read loop, when done() is true and *)
(* the message is framed by Content-Length or by chunked encoding,         *)
(* remain() is 0, so that a loop that reads remain() further octets of the *)
(* body after completion reads nothing; this includes a chunked message    *)
(* whose only chunk is the last-chunk.                                     *)
(***************************************************************************)
C38_RemainZeroWhenDone ==
    (done(P) /\ f_ \cap {flagContentLength, flagChunked} # {} /\ ~ failed)
        => remain(P) = 0

(***************************************************************************)
(* C39: if a write fails with a Bad* error while parsing the header block, *)
(* the framing state is as it was before the call: have_header() is false, *)
(* neither the flag for Content-Length nor the flag for chunked is set,    *)
(* and len still has its initial value, "unknown".                         *)
(***************************************************************************)
C39_FailedHeaderKeepsFraming ==
    (msg \in HeaderMsgs /\ op = "write" /\ IsFailure(ec))
        => /\ ~ have_header(P)
           /\ f_ \cap {flagContentLength, flagChunked} = {}
           /\ len_ = NewParser.len

====
